---------------------------- MODULE Spec2Model ----------------------------
(***************************************************************************)
(* A model of the dosage-guidance retrieval pipeline: the retry wrapper,   *)
(* the expiring LRU cache and the tiered retrieve_data of the agents       *)
(* (vector store, scraped cache, web scraper, write-back).                 *)
(*                                                                         *)
(* Texts are Python strings, modelled as tuples of one-character strings,  *)
(* so that len(), lower(), "x in s", replace() and format() are computed   *)
(* as Python computes them.  Python dicts are sequences of <<key, value>>  *)
(* pairs in insertion order.                                               *)
(***************************************************************************)
EXTENDS Integers, Sequences, FiniteSets, Bags, TLC

(***************************************************************************)
(* Bounds of the model.                                                    *)
(***************************************************************************)
\* The clock stops after this many days.
MaxDays == 1
\* The number of objects the vector store accepts.
MaxStore == 2
\* The number of close and cleanup calls made on a gateway.
MaxCloses == 4
\* app_config.CACHE_MAX_SIZE, scaled down from 1000 so that the caches fill up.
CACHE_MAX_SIZE == 1
\* app_config.CACHE_EXPIRY_DAYS, scaled down from 30 so that entries expire.
CACHE_EXPIRY_DAYS == 1
\* max_size of the LRUCache instance exercised on its own, and of the plan cache.
MaxSize == 2
\* The largest max_attempts a RetryManager is constructed with.
MaxAttempts == 4
\* The length of the filler of the long dosage line.
LongLine == 340

(***************************************************************************)
(* Program constants.                                                      *)
(***************************************************************************)
\* app_config.RETRY_MAX_ATTEMPTS
RETRY_MAX_ATTEMPTS == 3
\* app_config.RETRY_BACKOFF_FACTOR (0.2 seconds), in milliseconds
RETRY_BACKOFF_FACTOR_MS == 200
\* The shortest payload the validity gate accepts.
MIN_VALID_LENGTH == 20
\* generate_mitigation_plan: the attempts of its loop (range(3))
PLAN_ATTEMPTS == 3
\* the longest paragraph a plan may have, and where a longer fallback
\* paragraph is cut before "..." is put after it
PARAGRAPH_LIMIT == 400
PARAGRAPH_CUT == 397
\* the 0.5 seconds of time.sleep(0.5 * (2 ** attempt)), in milliseconds
PLAN_BACKOFF_MS == 500

(***************************************************************************)
(* Texts of the program and of the modelled inputs.                        *)
(***************************************************************************)
S_aspirin == \* "aspirin" (7 characters)
  <<"a","s","p","i","r","i","n">>
S_Aspirin == \* "Aspirin" (7 characters)
  <<"A","s","p","i","r","i","n">>
S_pain == \* "pain" (4 characters)
  <<"p","a","i","n">>
S_adult == \* "adult" (5 characters)
  <<"a","d","u","l","t">>
S_pediatric == \* "pediatric" (9 characters)
  <<"p","e","d","i","a","t","r","i","c">>
S_alprazolam == \* "alprazolam" (10 characters)
  <<"a","l","p","r","a","z","o","l","a","m">>
S_clonazepam == \* "clonazepam" (10 characters)
  <<"c","l","o","n","a","z","e","p","a","m">>
S_no == \* "no " (3 characters)
  <<"n","o"," ">>
S_space == \* " " (1 characters)
  <<" ">>
S_colon == \* ":" (1 characters)
  <<":">>
S_dot == \* "." (1 characters)
  <<".">>
S_dosage_prefix == \* "dosage:" (7 characters)
  <<"d","o","s","a","g","e",":">>
S_interactions_prefix == \* "interactions:" (13 characters)
  <<"i","n","t","e","r","a","c","t","i","o","n","s",":">>
S_dosage_url == \* "https://www.drugs.com/dosage/" (29 characters)
  <<"h","t","t","p","s",":","/","/","w","w","w",".","d","r","u","g","s",".","c","o","m","/","d","o","s","a","g","e","/">>
S_interactions_url == \* "https://www.drugs.com/food-interactions/" (40 characters)
  <<"h","t","t","p","s",":","/","/","w","w","w",".","d","r","u","g","s",".","c","o","m","/","f","o","o","d","-","i","n","t","e","r","a","c","t","i","o","n","s","/">>
S_html == \* ".html" (5 characters)
  <<".","h","t","m","l">>
S_no_dosage_information == \* "No dosage information available for " (36 characters)
  <<"N","o"," ","d","o","s","a","g","e"," ","i","n","f","o","r","m","a","t","i","o","n"," ","a","v","a","i","l","a","b","l","e"," ","f","o","r"," ">>
S_not_recommended == \* "Not recommended for patients under 18; consult a doctor." (56 characters)
  <<"N","o","t"," ","r","e","c","o","m","m","e","n","d","e","d"," ","f","o","r"," ","p","a","t","i","e","n","t","s"," ","u","n","d","e","r"," ","1","8",";"," ","c","o","n","s","u","l","t"," ","a"," ","d","o","c","t","o","r",".">>
S_no_dosage_section == \* "No dosage section found for " (28 characters)
  <<"N","o"," ","d","o","s","a","g","e"," ","s","e","c","t","i","o","n"," ","f","o","u","n","d"," ","f","o","r"," ">>
S_no_valid_dosage == \* "No valid dosage found for " (26 characters)
  <<"N","o"," ","v","a","l","i","d"," ","d","o","s","a","g","e"," ","f","o","u","n","d"," ","f","o","r"," ">>
S_and == \* " and " (5 characters)
  <<" ","a","n","d"," ">>
S_no_interactions == \* "No food/alcohol interactions found." (35 characters)
  <<"N","o"," ","f","o","o","d","/","a","l","c","o","h","o","l"," ","i","n","t","e","r","a","c","t","i","o","n","s"," ","f","o","u","n","d",".">>
S_no_relevant_interactions == \* "No relevant food/alcohol interactions found." (44 characters)
  <<"N","o"," ","r","e","l","e","v","a","n","t"," ","f","o","o","d","/","a","l","c","o","h","o","l"," ","i","n","t","e","r","a","c","t","i","o","n","s"," ","f","o","u","n","d",".">>
S_mg == \* "mg" (2 characters)
  <<"m","g">>
S_mcg == \* "mcg" (3 characters)
  <<"m","c","g">>
S_ml == \* "ml" (2 characters)
  <<"m","l">>
S_nl2 == \* "\n\n" (2 characters)
  <<"\n","\n">>
T_dose == \* "325 mg every 4 hours" (20 characters)
  <<"3","2","5"," ","m","g"," ","e","v","e","r","y"," ","4"," ","h","o","u","r","s">>
T_interaction == \* "Major Interaction: Alcohol\nAvoid alcohol." (41 characters)
  <<"M","a","j","o","r"," ","I","n","t","e","r","a","c","t","i","o","n",":"," ","A","l","c","o","h","o","l","\n","A","v","o","i","d"," ","a","l","c","o","h","o","l",".">>

(***************************************************************************)
(* Python values.                                                          *)
(***************************************************************************)
\* Python's None: distinct from every text (a text holds single characters).
None == <<"None">>
\* An embedding vector; its numbers play no part in the control flow.
Vec == <<"vector">>

\* The element of a one-element set: The({e : x \in {v}}) is e with the
\* value v worked out once and named x.
The(S) == CHOOSE r \in S : TRUE

\* bool(x) of a text or None: None and the empty text are falsy.
Truthy(x) == x /= None /\ x /= <<>>

UpperCase == <<"A","B","C","D","E","F","G","H","I","J","K","L","M","N","O","P","Q","R","S","T","U","V","W","X","Y","Z">>
LowerCase == <<"a","b","c","d","e","f","g","h","i","j","k","l","m","n","o","p","q","r","s","t","u","v","w","x","y","z">>

\* str.lower() of one character.
LowerChar(c) ==
  IF \E i \in 1..Len(UpperCase) : UpperCase[i] = c
  THEN LowerCase[CHOOSE i \in 1..Len(UpperCase) : UpperCase[i] = c]
  ELSE c

\* str.lower()
Lower(s) == The({[i \in 1..Len(t) |-> LowerChar(t[i])] : t \in {s}})

\* "frag in s"
Contains(s, frag) ==
  The({
    \E i \in 0..(Len(t) - Len(frag)) :
      \A j \in 1..Len(frag) : t[i + j] = frag[j] : t \in {s}})

\* s.replace(a, b) for one-character a and b.
Replace(s, a, b) == [i \in 1..Len(s) |-> IF s[i] = a THEN b ELSE s[i]]

\* sep.join(texts)
RECURSIVE Join(_, _)
Join(texts, sep) ==
  IF texts = <<>> THEN <<>>
  ELSE IF Len(texts) = 1 THEN texts[1]
  ELSE texts[1] \o sep \o Join(Tail(texts), sep)

(***************************************************************************)
(* Python dicts: sequences of <<key, value>> pairs in insertion order.     *)
(***************************************************************************)
\* list(d.keys())
Keys(d) == [i \in 1..Len(d) |-> d[i][1]]
\* list(d.values())
Values(d) == [i \in 1..Len(d) |-> d[i][2]]
\* "k in d"
Has(d, k) == \E i \in 1..Len(d) : d[i][1] = k
\* d[k], for k in d
Item(d, k) == d[CHOOSE i \in 1..Len(d) : d[i][1] = k][2]
\* d.get(k, default)
Get(d, k, default) == IF Has(d, k) THEN Item(d, k) ELSE default
\* d[k] = v: an existing key keeps its place, a new key goes last.
SetItem(d, k, v) ==
  IF Has(d, k)
  THEN [i \in 1..Len(d) |-> IF d[i][1] = k THEN <<k, v>> ELSE d[i]]
  ELSE Append(d, <<k, v>>)
\* del d[k], for k in d
DelItem(d, k) == SelectSeq(d, LAMBDA e : e[1] /= k)
\* OrderedDict.move_to_end(k), for k in d
MoveToEnd(d, k) == Append(DelItem(d, k), <<k, Item(d, k)>>)

(***************************************************************************)
(* src/config/collection_config.py                                         *)
(* A template is a sequence of parts: <<"text", t>> or <<"field", name>>.  *)
(***************************************************************************)
COLLECTION_CONFIG ==
  [ DrugDosage |->
      [ name |-> "DrugDosage",
        query_properties |-> <<"drugName", "symptom", "ageGroup", "dosage">>,
        filter_properties |-> <<"drugName", "symptom", "ageGroup">>,
        result_property |-> "dosage",
        scrape |-> [ url_template |-> <<<<"text", S_dosage_url>>, <<"field", "drug">>, <<"text", S_html>>>>,
                     extract_function |-> "extract_dosage_info",
                     params |-> <<"symptom", "ageGroup", "drugName">> ],
        cache_key_template |-> <<<<"text", S_dosage_prefix>>, <<"field", "drugName">>, <<"text", S_colon>>,
                                 <<"field", "symptom">>, <<"text", S_colon>>, <<"field", "ageGroup">>>> ],
    DrugInteractions |->
      [ name |-> "DrugInteractions",
        query_properties |-> <<"drugName", "interactions">>,
        filter_properties |-> <<"drugName">>,
        result_property |-> "interactions",
        scrape |-> [ url_template |-> <<<<"text", S_interactions_url>>, <<"field", "drug">>, <<"text", S_html>>>>,
                     extract_function |-> "extract_food_interaction_info",
                     params |-> <<"drugName">> ],
        cache_key_template |-> <<<<"text", S_interactions_prefix>>, <<"field", "drugName">>>> ] ]

CollectionKeys == DOMAIN COLLECTION_CONFIG

\* template.format(**d) raises KeyError: a field of the template is no key of d.
FormatRaises(template, d) ==
  \E i \in 1..Len(template) : template[i][1] = "field" /\ ~Has(d, template[i][2])

\* template.format(**d), for a d that has every field of the template.
RECURSIVE Format(_, _)
Format(template, d) ==
  IF template = <<>> THEN <<>>
  ELSE (IF template[1][1] = "text" THEN template[1][2] ELSE Item(d, template[1][2]))
       \o Format(Tail(template), d)

\* The members of a sequence.
Range(s) == {s[i] : i \in 1..Len(s)}

(***************************************************************************)
(* The validity gate, at its two places in the code.                       *)
(***************************************************************************)
\* The gate as the specification states it: length >= 20 and no "no ".
PassesGate(data) == Len(data) >= MIN_VALID_LENGTH /\ ~Contains(Lower(data), S_no)

\* A store-side gate that forgets the "no " sentinel.
StoreGateLengthOnly(data) == Len(data) < MIN_VALID_LENGTH

\* A store-side gate that also rejects a payload of exactly 20 characters.
StoreGateStrict(data) == Len(data) <= MIN_VALID_LENGTH \/ Contains(Lower(data), S_no)

\* RAGClient.query_data: len(data) < 20 or "no " in data.lower()
StoreGateRejects(data) == Len(data) < MIN_VALID_LENGTH \/ Contains(Lower(data), S_no)

\* A cache-side gate that forgets the "no " sentinel.
CacheGateLengthOnly(cached_data) == Truthy(cached_data) /\ Len(cached_data) >= MIN_VALID_LENGTH

\* A cache-side gate that accepts nothing.
CacheGateNever(cached_data) == FALSE

\* BaseAgent.retrieve_data:
\* cached_data and len(cached_data) >= 20 and "no " not in cached_data.lower()
CacheGateAccepts(cached_data) ==
  /\ Truthy(cached_data)
  /\ Len(cached_data) >= MIN_VALID_LENGTH
  /\ ~Contains(Lower(cached_data), S_no)

(***************************************************************************)
(* src/utils/retry_manager.py                                              *)
(***************************************************************************)
\* RetryManager.retry around an operation that fails `fails` times in a row
\* and would succeed afterwards: whether the wrapper returns (ok) or raises,
\* the attempts made and the time.sleep calls made.
Retry(fails) ==
  IF fails < RETRY_MAX_ATTEMPTS
  THEN [ok |-> TRUE,  attempts |-> fails + 1,          sleeps |-> fails]
  ELSE [ok |-> FALSE, attempts |-> RETRY_MAX_ATTEMPTS, sleeps |-> RETRY_MAX_ATTEMPTS - 1]

(***************************************************************************)
(* src/utils/cache.py: LRUCache.  An instance is a record of its fields:   *)
(* cache (an OrderedDict), max_size, expiry_seconds and timestamps (a      *)
(* dict).  Each method is given by what it raises, what it returns and the *)
(* instance it leaves, at time t (time.time()).                            *)
(***************************************************************************)
\* LRUCache.__init__
LRUCache(max_size, expiry_days) ==
  [cache |-> <<>>, max_size |-> max_size,
   expiry_seconds |-> expiry_days * 24 * 60 * 60, timestamps |-> <<>>]

\* LRUCache.get raises KeyError (self.timestamps[key]): the key is cached and
\* has no timestamp.
GetRaises(c, key) == Has(c.cache, key) /\ ~Has(c.timestamps, key)

\* LRUCache.get: the value returned.
GetValue(c, key, t) ==
  IF Has(c.cache, key) /\ Has(c.timestamps, key)
     /\ t - Item(c.timestamps, key) < c.expiry_seconds
  THEN Item(c.cache, key)
  ELSE None

\* A get that also restarts the expiry of the key it returns.
GetStateRefreshing(c, key, t) ==
  IF ~Has(c.cache, key) \/ ~Has(c.timestamps, key) THEN c
  ELSE IF t - Item(c.timestamps, key) < c.expiry_seconds
       THEN [c EXCEPT !.cache = MoveToEnd(c.cache, key),
                      !.timestamps = SetItem(c.timestamps, key, t)]
       ELSE [c EXCEPT !.cache = DelItem(c.cache, key),
                      !.timestamps = DelItem(c.timestamps, key)]

\* LRUCache.get: the instance afterwards.
GetState(c, key, t) ==
  IF ~Has(c.cache, key) \/ ~Has(c.timestamps, key) THEN c
  ELSE IF t - Item(c.timestamps, key) < c.expiry_seconds
       THEN [c EXCEPT !.cache = MoveToEnd(c.cache, key)]
       ELSE [c EXCEPT !.cache = DelItem(c.cache, key),
                      !.timestamps = DelItem(c.timestamps, key)]

\* A put that stores nothing.
PutNothing(c, key, value, t) == c

\* A put that keeps the value of a key already cached.
PutIfAbsent(c, key, value, t) ==
  IF Has(c.cache, key) THEN c
  ELSE [c EXCEPT !.cache = SetItem(c.cache, key, value),
                 !.timestamps = SetItem(c.timestamps, key, t)]

\* A put that never evicts.
PutNoEvict(c, key, value, t) ==
  [c EXCEPT !.cache = SetItem(IF Has(c.cache, key) THEN MoveToEnd(c.cache, key) ELSE c.cache,
                              key, value),
            !.timestamps = SetItem(c.timestamps, key, t)]

\* A put that, when the cache is over its size, drops the entry just put.
PutEvictsNewest(c, key, value, t) ==
  LET moved  == IF Has(c.cache, key) THEN MoveToEnd(c.cache, key) ELSE c.cache
      cache1 == SetItem(moved, key, value)
      times1 == SetItem(c.timestamps, key, t)
  IN  IF Len(cache1) > c.max_size
      THEN [c EXCEPT !.cache = SubSeq(cache1, 1, Len(cache1) - 1),
                     !.timestamps = DelItem(times1, key)]
      ELSE [c EXCEPT !.cache = cache1, !.timestamps = times1]

\* LRUCache.put: the instance afterwards.
Put(c, key, value, t) ==
  LET moved  == IF Has(c.cache, key) THEN MoveToEnd(c.cache, key) ELSE c.cache
      cache1 == SetItem(moved, key, value)
      times1 == SetItem(c.timestamps, key, t)
  IN  IF Len(cache1) > c.max_size
      THEN [c EXCEPT !.cache = Tail(cache1),
                     !.timestamps = DelItem(times1, Keys(times1)[1])]
      ELSE [c EXCEPT !.cache = cache1, !.timestamps = times1]

\* A cache file: absent, unreadable (a write that broke off), or the JSON
\* object json.dump(self.cache) wrote: the pairs of the cache, in its order.
Absent == [state |-> "absent", data |-> <<>>]
Corrupt == [state |-> "corrupt", data |-> <<>>]
Json(data) == [state |-> "json", data |-> data]

\* LRUCache.save: the files it can leave.  open() or json.dump may fail; the
\* exception is logged, and the file is as it was or is cut short.
Save(c, file) == {Json(c.cache), file, Corrupt}

\* A save that lets the exception of a failed write out.
SaveLetsOut(c, after) == after /= Json(c.cache)

\* LRUCache.save: whether it raises when it has left the file `after`.  The
\* except clause logs every exception of open() and json.dump, so it never does.
SaveRaises(c, after) == FALSE

\* LRUCache.load: self.put(key, value) for each pair of the file, in its order.
RECURSIVE PutAll(_, _, _)
PutAll(c, data, t) ==
  IF data = <<>> THEN c
  ELSE PutAll(Put(c, data[1][1], data[1][2], t), Tail(data), t)

\* A load that reads nothing.
LoadNothing(c, file, t) == c

\* LRUCache.load: the instance afterwards.  No file, or one json.load cannot
\* read (the exception is logged), loads nothing.
Load(c, file, t) == IF file.state = "json" THEN PutAll(c, file.data, t) ELSE c

(***************************************************************************)
(* The web scraper.  What a fetch returns is the environment's choice: no  *)
(* content, or a page, of which the model keeps what the extraction        *)
(* functions find in it: whether a dose heading matches, the cleaned text  *)
(* of its section, whether interaction blocks exist and their described    *)
(* parts.                                                                  *)
(***************************************************************************)
NoContent ==
  [content |-> FALSE, heading |-> FALSE, final_text |-> <<>>, divs |-> FALSE, parts |-> <<>>]

Pages ==
  { NoContent,
    [content |-> TRUE, heading |-> FALSE, final_text |-> <<>>,    divs |-> FALSE, parts |-> <<>>],
    [content |-> TRUE, heading |-> TRUE,  final_text |-> T_dose,  divs |-> TRUE,  parts |-> <<T_interaction>>] }

\* An extraction that does not look at whether the fetch gave content.
extract_dosage_info_unguarded(scraped_html, symptom, age_group, drug) ==
  IF ~scraped_html.heading
  THEN S_no_dosage_section \o age_group \o S_and \o symptom \o S_dot
  ELSE scraped_html.final_text

\* WebScraper.extract_dosage_info
extract_dosage_info(scraped_html, symptom, age_group, drug) ==
  IF ~scraped_html.content
  THEN S_no_dosage_information \o drug \o S_dot
  ELSE IF Lower(drug) \in {S_alprazolam, S_clonazepam} /\ age_group = S_pediatric
  THEN S_not_recommended
  ELSE IF ~scraped_html.heading
  THEN S_no_dosage_section \o age_group \o S_and \o symptom \o S_dot
  ELSE IF \/ Len(scraped_html.final_text) < 20
          \/ \A unit \in {S_mg, S_mcg, S_ml} : ~Contains(Lower(scraped_html.final_text), unit)
  THEN S_no_valid_dosage \o age_group \o S_and \o symptom \o S_dot
  ELSE scraped_html.final_text

\* WebScraper.extract_food_interaction_info
extract_food_interaction_info(html) ==
  IF ~html.content THEN S_no_interactions
  ELSE IF ~html.divs THEN S_no_interactions
  ELSE IF html.parts /= <<>> THEN Join(html.parts, S_nl2)
  ELSE S_no_relevant_interactions

(***************************************************************************)
(* The state: the clock, the vector store, the RAGClient's scraped cache,  *)
(* and the one retrieve_data call in progress with its local variables.    *)
(***************************************************************************)
VARIABLES
  now,              \* time.time()
  store,            \* the objects of the vector store: a bag of [collection, properties]
  scraped_cache,    \* RAGClient.scraped_cache, an LRUCache
  scraped_cache_file, \* cache/scraped_cache.json
  pc,               \* where the retrieve_data call in progress stands
  collection_key,   \* BaseAgent's collection key
  query_params,     \* retrieve_data's argument
  query_vec,        \* its local variables ...
  result,
  cache_key,
  cached_data,
  scraped_content,
  extracted_data,
  success,
  returned,         \* the value retrieve_data returned
  raised,           \* the exception retrieve_data raised
  calls,            \* the RAGClient and scraper calls the call in progress has made
  lru,              \* an LRUCache instance used on its own
  lru_file,         \* the file it is saved to and loaded from
  last_op,          \* the last method called on it, with what it returned or raised
  accessed,         \* history: the keys put on it or returned by its get, least recently
                    \* accessed first, each with the time of its last put
  retry,            \* a call of a function wrapped by RetryManager.retry
  gate,             \* a payload put before the validity gate at its two places
  plan_cache,       \* RAGClient.plan_cache, an LRUCache
  plan_cache_file,  \* cache/plan_cache.json
  plan,             \* the generate_mitigation_plan call in progress, and the one before it
  gateway,          \* a WeaviateAdapter, the RAGClient that holds it, and what was closed
  section,          \* a paragraph of the fallback plan, before and after it is cut
  embedding         \* a call of RAGClient.embed on one text

locals == <<collection_key, query_params, query_vec, result, cache_key, cached_data,
            scraped_content, extracted_data, success, returned, raised>>
rag == <<store, scraped_cache, scraped_cache_file>>
call == <<pc, locals, calls>>
unit == <<lru, lru_file, last_op, accessed>>
planner == <<plan_cache, plan_cache_file, plan>>
extra == <<section, embedding>>
side == <<retry, gate, planner, gateway, extra>>
vars == <<now, rag, call, unit, side>>

\* The drug names the callers pass: one drug, in two casings.
DrugNames == {S_aspirin, S_Aspirin}

\* The collection configuration of the agent in progress.
collection_config == COLLECTION_CONFIG[collection_key]

\* " ".join(query_params.values())
query_text == Join(Values(query_params), S_space)

\* {k: v.lower() for k, v in query_params.items() if k in filter_properties}
LowerFilterFields(params, config) ==
  LET kept == SelectSeq(params, LAMBDA e : e[1] \in Range(config.filter_properties))
  IN  [i \in 1..Len(kept) |-> <<kept[i][1], Lower(kept[i][2])>>]

\* The filters of the store query (base_agent.py line 33).
Filters(params, config) == LowerFilterFields(params, config)

\* cache_key_template.format(**query_params) (base_agent.py line 48).
CacheKey(params, config) == Format(config.cache_key_template, params)

\* The objects of a collection that pass Filter.all_of(equal ...).
Matching(name, filters) ==
  { obj \in BagToSet(store) :
      /\ obj.collection = name
      /\ \A i \in 1..Len(filters) : Get(obj.properties, filters[i][1], None) = filters[i][2] }

NoLocals ==
  /\ collection_key = "DrugDosage"
  /\ query_params = <<>>
  /\ query_vec = None
  /\ result = <<>>
  /\ cache_key = None
  /\ cached_data = None
  /\ scraped_content = NoContent
  /\ extracted_data = None
  /\ success = FALSE
  /\ returned = None
  /\ raised = "none"

NoOp == [op |-> "none", key |-> None, value |-> None, raised |-> "none"]

\* No exception.
NoException == [type |-> "none", names |-> "none", wraps |-> "none"]

\* No wrapped call in progress.
RetryIdle ==
  [state |-> "idle", module |-> "none", func |-> "none", max_attempts |-> 0, attempt |-> 0, invocations |-> 0,
   sleeps |-> <<>>, errors |-> <<>>, last_exception |-> NoException,
   result |-> "none", raised |-> NoException]

\* No payload is before the gate.
GateIdle == [state |-> "idle", data |-> None, store |-> "pending", cache |-> "pending"]

\* No generate_mitigation_plan call has been made.
\* No WeaviateAdapter and no RAGClient yet.  client is WeaviateAdapter.client:
\* None, a client that is connected, one that is not ready, or one that was
\* closed; session is RAGClient.session.
GatewayNew ==
  [adapter |-> FALSE, client |-> "none", rag_client |-> FALSE, session |-> "none",
   op |-> "none", raised |-> "none", client_failed |-> FALSE, client_closes |-> 0, calls |-> 0]

NoCall ==
  [made |-> FALSE, key |-> <<>>, outcome |-> "none", fallback |-> FALSE, output |-> <<>>]
PlanIdle ==
  [state |-> "idle", input |-> 0, plan_key |-> <<>>, attempt |-> 0, generate_calls |-> 0,
   sleeps |-> <<>>, fallback |-> FALSE, output |-> <<>>, raised |-> "none", before |-> NoCall]

\* No call of RAGClient.embed in progress.
EmbedIdle ==
  [state |-> "idle", module |-> "none", text |-> <<>>, fails |-> 0, cached |-> FALSE,
   broken |-> FALSE, attempt |-> 0, requests |-> 0, sleeps |-> <<>>, vector |-> None,
   raised |-> "none"]

\* No paragraph of a fallback plan yet.
SectionIdle == [state |-> "idle", kind |-> "none", built |-> <<>>, text |-> <<>>]

InitSide ==
  /\ retry = RetryIdle
  /\ gate = GateIdle
  /\ plan_cache = LRUCache(MaxSize, CACHE_EXPIRY_DAYS)
  /\ plan_cache_file = Absent
  /\ plan = PlanIdle
  /\ gateway = GatewayNew
  /\ section = SectionIdle
  /\ embedding = EmbedIdle

Init ==
  /\ now = 0
  /\ store = EmptyBag
  /\ scraped_cache = LRUCache(CACHE_MAX_SIZE, CACHE_EXPIRY_DAYS)
  /\ scraped_cache_file = Absent
  /\ lru = LRUCache(MaxSize, CACHE_EXPIRY_DAYS)
  /\ lru_file = Absent
  /\ last_op = NoOp
  /\ accessed = <<>>
  /\ pc = "idle"
  /\ calls = <<>>
  /\ NoLocals
  /\ InitSide

\* BaseAgent.retrieve_data is entered.
retrieve_data(key, params) ==
  /\ pc = "idle"
  /\ pc' = "embed"
  /\ collection_key' = key
  /\ query_params' = params
  /\ UNCHANGED <<now, side, rag, unit, calls, query_vec, result, cache_key, cached_data,
                 scraped_content, extracted_data, success, returned, raised>>

\* DrugDosageAgent.get_dosage
get_dosage ==
  \E drug_name \in DrugNames :
    retrieve_data("DrugDosage",
                  << <<"drugName", drug_name>>, <<"symptom", S_pain>>, <<"ageGroup", S_adult>> >>)

\* DrugInteractionAgent.get_interactions
get_interactions ==
  \E drug_name \in DrugNames :
    retrieve_data("DrugInteractions", << <<"drugName", drug_name>> >>)

\* retrieve_data called with parameters that lack the primary filter field.
retrieve_without_drug == retrieve_data("DrugInteractions", <<>>)

\* query_vec = self.rag_client.embed([query_text])[0].  RAGClient.embed gives
\* the vector (from embed_cache or the embedding API), or None when the
\* request failed (the exception is caught inside the attempt), and then
\* saves the caches; or embed_cache.get raises KeyError on every attempt and
\* the retry wrapper re-raises it.  embed_cache is a separate LRUCache, whose
\* state this action does not keep.
embed ==
  /\ pc = "embed"
  /\ \/ /\ query_vec' \in {Vec, None}
        /\ scraped_cache_file' \in Save(scraped_cache, scraped_cache_file)
        /\ pc' = "query"
        /\ calls' = Append(calls, "embed")
        /\ raised' = raised
     \/ /\ raised' = "KeyError"
        /\ pc' = "raised"
        /\ UNCHANGED <<query_vec, calls, scraped_cache_file>>
  /\ UNCHANGED <<now, side, store, scraped_cache, unit, collection_key, query_params, result, cache_key,
                 cached_data, scraped_content, extracted_data, success, returned>>

\* RAGClient.query_data over WeaviateAdapter.query_data (limit = 1): what it returns.
QueryResults(name, filters, result_property) ==
  LET found   == IF Matching(name, filters) = {} THEN {<<>>}
                 ELSE {<<obj.properties>> : obj \in Matching(name, filters)}
      gated(r) == IF \E i \in 1..Len(r) : StoreGateRejects(Get(r[i], result_property, <<>>))
                  THEN <<>> ELSE r
  IN  {gated(r) : r \in found}

\* result = self.rag_client.query_data(...)
query_data ==
  /\ pc = "query"
  /\ \E fails \in 0..RETRY_MAX_ATTEMPTS :
       IF Retry(fails).ok
       THEN result' \in QueryResults(collection_config.name,
                                     Filters(query_params, collection_config),
                                     collection_config.result_property)
       ELSE result' = <<>>
  /\ pc' = "queried"
  /\ calls' = Append(calls, "query_data")
  /\ UNCHANGED <<now, side, rag, unit, collection_key, query_params, query_vec, cache_key,
                 cached_data, scraped_content, extracted_data, success, returned, raised>>

\* if result: data = result[0].properties.get(...): result[0] is a dict of
\* properties (WeaviateAdapter.query_data returns obj.properties), which has
\* no attribute "properties".
store_hit ==
  /\ pc = "queried"
  /\ result /= <<>>
  /\ raised' = "AttributeError"
  /\ pc' = "raised"
  /\ UNCHANGED <<now, side, rag, unit, calls, collection_key, query_params, query_vec, result,
                 cache_key, cached_data, scraped_content, extracted_data, success, returned>>

\* cache_key = ...format(**query_params); cached_data = get_from_cache(cache_key)
get_from_cache ==
  /\ pc = "queried"
  /\ result = <<>>
  /\ IF FormatRaises(collection_config.cache_key_template, query_params)
     THEN /\ raised' = "KeyError"
          /\ pc' = "raised"
          /\ UNCHANGED <<scraped_cache, calls, cache_key, cached_data>>
     ELSE LET key == CacheKey(query_params, collection_config)
          IN  /\ cache_key' = key
              /\ calls' = Append(calls, "get_from_cache")
              /\ IF GetRaises(scraped_cache, key)
                 THEN /\ raised' = "KeyError"
                      /\ pc' = "raised"
                      /\ UNCHANGED <<scraped_cache, cached_data>>
                 ELSE /\ cached_data' = GetValue(scraped_cache, key, now)
                      /\ scraped_cache' = GetState(scraped_cache, key, now)
                      /\ pc' = "looked_up"
                      /\ raised' = raised
  /\ UNCHANGED <<now, side, store, scraped_cache_file, unit, collection_key, query_params, query_vec, result,
                 scraped_content, extracted_data, success, returned>>

\* if cached_data and len(cached_data) >= 20 and "no " not in ...: return cached_data
cache_hit ==
  /\ pc = "looked_up"
  /\ CacheGateAccepts(cached_data)
  /\ returned' = cached_data
  /\ pc' = "done"
  /\ UNCHANGED <<now, side, rag, unit, calls, collection_key, query_params, query_vec, result,
                 cache_key, cached_data, scraped_content, extracted_data, success, raised>>

\* query_params.get(filter_properties[0], "").replace(" ", "-").lower()
drug_key == Lower(Replace(Get(query_params, collection_config.filter_properties[1], <<>>),
                          " ", "-"))

\* scrape_config["url_template"].format(drug=drug_key)
url == Format(collection_config.scrape.url_template, << <<"drug", drug_key>> >>)

\* scraped_content = self.rag_client.scraper.scrape_data(url)
scrape_data ==
  /\ pc = "looked_up"
  /\ ~CacheGateAccepts(cached_data)
  /\ scraped_content' \in Pages
  /\ pc' = "scraped"
  /\ calls' = Append(calls, "scrape_data")
  /\ UNCHANGED <<now, side, rag, unit, collection_key, query_params, query_vec, result,
                 cache_key, cached_data, extracted_data, success, returned, raised>>

\* getattr(scraper, extract_function)(scraped_content, *extract_params)
Extracted(config, params, content) ==
  LET arg(i) == Get(params, config.scrape.params[i], <<>>)
  IN  IF config.scrape.extract_function = "extract_dosage_info"
      THEN extract_dosage_info(content, arg(1), arg(2), arg(3))
      ELSE extract_food_interaction_info(content)

extract ==
  /\ pc = "scraped"
  /\ extracted_data' = Extracted(collection_config, query_params, scraped_content)
  /\ pc' = "extracted"
  /\ calls' = Append(calls, collection_config.scrape.extract_function)
  /\ UNCHANGED <<now, side, rag, unit, collection_key, query_params, query_vec, result,
                 cache_key, cached_data, scraped_content, success, returned, raised>>

\* An object written back with the result field only.
PropertiesBare(params, config, data) == <<<<config.result_property, data>>>>

\* The properties of the object written back (base_agent.py lines 62-63).
Properties(params, config, data) ==
  SetItem(LowerFilterFields(params, config), config.result_property, data)

\* success = self.rag_client.insert_data(collection_name, properties, query_vec)
insert_data ==
  /\ pc = "extracted"
  /\ \E fails \in 0..RETRY_MAX_ATTEMPTS :
       IF Retry(fails).ok
       THEN /\ BagCardinality(store) < MaxStore
            /\ store' = store (+) SetToBag({[collection |-> collection_config.name,
                                             properties |-> Properties(query_params, collection_config,
                                                                       extracted_data)]})
            /\ success' = TRUE
       ELSE /\ store' = store
            /\ success' = FALSE
  /\ pc' = "inserted"
  /\ calls' = Append(calls, "insert_data")
  /\ UNCHANGED <<now, side, scraped_cache, scraped_cache_file, unit, collection_key, query_params, query_vec, result,
                 cache_key, cached_data, scraped_content, extracted_data, returned, raised>>

\* self.rag_client.store_in_cache(cache_key, extracted_data) (the put, then
\* save_caches); return extracted_data
store_in_cache ==
  /\ pc = "inserted"
  /\ LET put == Put(scraped_cache, cache_key, extracted_data, now)
     IN  /\ scraped_cache' = put
         /\ scraped_cache_file' \in Save(put, scraped_cache_file)
         /\ IF SaveRaises(put, scraped_cache_file')
            THEN /\ raised' = "OSError"
                 /\ pc' = "raised"
                 /\ returned' = returned
            ELSE /\ returned' = extracted_data
                 /\ pc' = "done"
                 /\ raised' = raised
  /\ calls' = Append(calls, "store_in_cache")
  /\ UNCHANGED <<now, side, store, unit, collection_key, query_params, query_vec, result,
                 cache_key, cached_data, scraped_content, extracted_data, success>>

\* The caller has the value or the exception; the next call can start.
finish ==
  /\ pc \in {"done", "raised"}
  /\ pc' = "idle"
  /\ calls' = <<>>
  /\ collection_key' = "DrugDosage"
  /\ query_params' = <<>>
  /\ query_vec' = None
  /\ result' = <<>>
  /\ cache_key' = None
  /\ cached_data' = None
  /\ scraped_content' = NoContent
  /\ extracted_data' = None
  /\ success' = FALSE
  /\ returned' = None
  /\ raised' = "none"
  /\ UNCHANGED <<now, side, rag, unit>>

SecondsPerDay == 24 * 60 * 60

\* A day passes.
Tick ==
  /\ now < MaxDays * SecondsPerDay
  /\ now' = now + SecondsPerDay
  /\ UNCHANGED <<rag, call, unit, side>>

Next ==
  \/ get_dosage
  \/ get_interactions
  \/ retrieve_without_drug
  \/ embed
  \/ query_data
  \/ store_hit
  \/ get_from_cache
  \/ cache_hit
  \/ scrape_data
  \/ extract
  \/ insert_data
  \/ store_in_cache
  \/ finish
  \/ Tick

\* The retrieval pipeline: the agents' calls, one at a time, as time passes.
Spec == Init /\ [][Next]_vars

(***************************************************************************)
(* An LRUCache instance used on its own: any get, put, save and load, and  *)
(* a restart of the process (a fresh instance that loads the file).        *)
(***************************************************************************)
\* The keys and values used on the instance: one key more than it holds.
Digits == <<"1", "2", "3", "4", "5", "6", "7", "8", "9">>
UnitKeys == {<<"k", Digits[i]>> : i \in 1..(MaxSize + 1)}
UnitValues == {<<"v", Digits[i]>> : i \in 1..2}

\* The history after a put of key at time t.
Touched(seen, key, t) ==
  SetItem(IF Has(seen, key) THEN MoveToEnd(seen, key) ELSE seen, key, t)

\* The history after a load of the file at time t: a put of each of its pairs.
RECURSIVE TouchedEach(_, _, _)
TouchedEach(seen, data, t) ==
  IF data = <<>> THEN seen
  ELSE TouchedEach(Touched(seen, data[1][1], t), Tail(data), t)

TouchedAll(seen, file, t) ==
  IF file.state = "json" THEN TouchedEach(seen, file.data, t) ELSE seen

\* lru.get(key)
lru_get ==
  \E key \in UnitKeys :
    /\ IF GetRaises(lru, key)
       THEN /\ last_op' = [op |-> "get", key |-> key, value |-> None, raised |-> "KeyError"]
            /\ lru' = lru
            /\ accessed' = accessed
       ELSE /\ last_op' = [op |-> "get", key |-> key, value |-> GetValue(lru, key, now),
                           raised |-> "none"]
            /\ lru' = GetState(lru, key, now)
            /\ accessed' = IF GetValue(lru, key, now) = None THEN accessed
                           ELSE MoveToEnd(accessed, key)
    /\ UNCHANGED <<now, side, rag, call, lru_file>>

\* lru.put(key, value)
lru_put ==
  \E key \in UnitKeys, value \in UnitValues :
    /\ lru' = Put(lru, key, value, now)
    /\ accessed' = Touched(accessed, key, now)
    /\ last_op' = [op |-> "put", key |-> key, value |-> value, raised |-> "none"]
    /\ UNCHANGED <<now, side, rag, call, lru_file>>

\* lru.save(file_path)
lru_save ==
  /\ lru_file' \in Save(lru, lru_file)
  /\ last_op' = [NoOp EXCEPT !.op = "save"]
  /\ UNCHANGED <<now, side, rag, call, lru, accessed>>

\* lru.load(file_path)
lru_load ==
  /\ lru' = Load(lru, lru_file, now)
  /\ accessed' = TouchedAll(accessed, lru_file, now)
  /\ last_op' = [NoOp EXCEPT !.op = "load"]
  /\ UNCHANGED <<now, side, rag, call, lru_file>>

\* A new process: LRUCache(max_size, expiry_days), then load (RAGClient.__init__).
lru_restart ==
  /\ lru' = Load(LRUCache(MaxSize, CACHE_EXPIRY_DAYS), lru_file, now)
  /\ accessed' = TouchedAll(<<>>, lru_file, now)
  /\ last_op' = [NoOp EXCEPT !.op = "restart"]
  /\ UNCHANGED <<now, side, rag, call, lru_file>>

NextCache ==
  \/ lru_get
  \/ lru_put
  \/ lru_save
  \/ lru_load
  \/ lru_restart
  \/ Tick

SpecCache == Init /\ [][NextCache]_vars

\* Half a day passes: a time at which an entry put earlier is not yet expired.
Nap ==
  /\ now < MaxDays * SecondsPerDay
  /\ now' = now + SecondsPerDay \div 2
  /\ UNCHANGED <<rag, call, unit, side>>

\* The instance in memory only, on the finer clock.
NextAccess ==
  \/ lru_get
  \/ lru_put
  \/ Nap

SpecAccess == Init /\ [][NextAccess]_vars

\* The instance filled, saved and restarted, on a clock that goes past the
\* expiry of an entry put at time 0 (a day and a half).
NextRestart ==
  \/ lru_put
  \/ lru_save
  \/ lru_restart
  \/ Nap
  \/ Tick

SpecRestart == Init /\ [][NextRestart]_vars

(***************************************************************************)
(* A new process that finds a cache file written elsewhere (by a process   *)
(* with a larger CACHE_MAX_SIZE, or by hand): any JSON object of up to     *)
(* MaxSize + 1 keys.                                                       *)
(***************************************************************************)
Snapshots ==
  UNION { { s \in [1..n -> UnitKeys \X UnitValues] :
              \A i, j \in 1..n : i /= j => s[i][1] /= s[j][1] } : n \in 0..(MaxSize + 1) }

InitSnapshot ==
  /\ now = 0
  /\ store = EmptyBag
  /\ scraped_cache = LRUCache(CACHE_MAX_SIZE, CACHE_EXPIRY_DAYS)
  /\ scraped_cache_file = Absent
  /\ lru = LRUCache(MaxSize, CACHE_EXPIRY_DAYS)
  /\ lru_file \in {Json(s) : s \in Snapshots}
  /\ last_op = NoOp
  /\ accessed = <<>>
  /\ pc = "idle"
  /\ calls = <<>>
  /\ NoLocals
  /\ InitSide

NextSnapshot ==
  \/ lru_restart
  \/ lru_get
  \/ Tick

SpecSnapshot == InitSnapshot /\ [][NextSnapshot]_vars

(***************************************************************************)
(* src/utils/retry_manager.py: a call of a function wrapped by             *)
(* RetryManager.retry, attempt by attempt.  Whether an invocation of the   *)
(* function returns or raises, and what it raises, is the environment's    *)
(* choice.  Delays are in milliseconds.                                    *)
(***************************************************************************)
\* The functions wrapped, and the exceptions they raise.
Funcs == {"attempt_query", "attempt_insert"}
\* The two revisions of the wrapper the repository holds.
Modules == {"src/utils/retry_manager.py", "retry_manager.py"}
Errors == {"ConnectionError", "TimeoutError", "ValueError"}

\* An exception raised by the wrapped function.
Underlying(e) == [type |-> e, names |-> "none", wraps |-> "none"]

\* 2 ** attempt
RECURSIVE Pow2(_)
Pow2(n) == IF n = 0 THEN 1 ELSE 2 * Pow2(n - 1)

\* A wrapper that sleeps the same time before every retry.
DelayFlat(attempt) == RETRY_BACKOFF_FACTOR_MS

\* delay = self.backoff_factor * (2 ** attempt)
Delay(attempt) == RETRY_BACKOFF_FACTOR_MS * Pow2(attempt)

\* What the wrapper raises after the last attempt.  src/utils/retry_manager.py
\* logs "<func> failed after <n> attempts: <e>" and executes a bare raise,
\* which re-raises the exception being handled; retry_manager.py raises
\* Exception("<func> failed after <n> attempts: <e>").
Reraised(module, func, e) ==
  IF module = "src/utils/retry_manager.py"
  THEN e
  ELSE [type |-> "Exception", names |-> func, wraps |-> e.type]

\* if attempt == self.max_attempts - 2: gives up one attempt early
LastAttemptEarly(r) == r.attempt = r.max_attempts - 2

\* if attempt == self.max_attempts - 1
LastAttempt(r) == r.attempt = r.max_attempts - 1

\* wrapper(*args, **kwargs) is called on a RetryManager(max_attempts = n).
retry_call ==
  /\ retry.state = "idle"
  /\ \E n \in 1..MaxAttempts, f \in Funcs, m \in Modules :
       retry' = [RetryIdle EXCEPT !.state = "running", !.module = m, !.func = f,
                                  !.max_attempts = n]
  /\ UNCHANGED <<now, rag, call, unit, gate, planner, gateway, extra>>

\* One turn of "for attempt in range(self.max_attempts)": the function is
\* invoked and returns, or raises and the wrapper sleeps or gives up.
retry_attempt ==
  /\ retry.state = "running"
  /\ retry.attempt < retry.max_attempts
  /\ \/ retry' = [retry EXCEPT !.invocations = @ + 1, !.state = "returned", !.result = "value"]
     \/ \E e \in Errors :
          IF LastAttempt(retry)
          THEN retry' = [retry EXCEPT !.invocations = @ + 1,
                                      !.errors = Append(@, e),
                                      !.last_exception = Underlying(e),
                                      !.state = "raised",
                                      !.raised = Reraised(retry.module, retry.func, Underlying(e))]
          ELSE retry' = [retry EXCEPT !.invocations = @ + 1,
                                      !.errors = Append(@, e),
                                      !.last_exception = Underlying(e),
                                      !.sleeps = Append(@, Delay(retry.attempt)),
                                      !.attempt = @ + 1]
  /\ UNCHANGED <<now, rag, call, unit, gate, planner, gateway, extra>>

\* The caller has the value or the exception.
retry_finish ==
  /\ retry.state \in {"returned", "raised"}
  /\ retry' = RetryIdle
  /\ UNCHANGED <<now, rag, call, unit, gate, planner, gateway, extra>>

NextRetry ==
  \/ retry_call
  \/ retry_attempt
  \/ retry_finish

SpecRetry == Init /\ [][NextRetry]_vars

(***************************************************************************)
(* The validity gate on its own: a payload is put before the store-side    *)
(* gate of RAGClient.query_data (as the one object of a result) and before *)
(* the cache-side gate of BaseAgent.retrieve_data (as what get_from_cache  *)
(* returned).                                                              *)
(***************************************************************************)
\* The longest padding on either side of a payload's fragment.
MaxPad == 20

\* n characters that are not part of the sentinel.
Pad(n) == [i \in 1..n |-> "x"]

\* What the padding surrounds: nothing, the sentinel in each casing, and
\* near misses of it.
Fragments ==
  {<<>>, S_no, <<"N","o"," ">>, <<"N","O"," ">>, <<"n","O"," ">>,
   <<"n","o">>, <<"n","o","t">>, <<"n"," ","o">>, <<" ","n","o">>}

\* The payloads: texts of 0 to 2 * MaxPad + 3 characters, and None.
Payloads ==
  {Pad(a) \o f \o Pad(b) : a \in 0..MaxPad, b \in 0..MaxPad, f \in Fragments} \cup {None}

\* RAGClient.query_data on a result of one object holding data: the result
\* is returned unless the gate rejects it; len(None) raises TypeError,
\* which the except clause turns into [].
StoreVerdict(data) ==
  IF data = None THEN "rejected"
  ELSE IF StoreGateRejects(data) THEN "rejected" ELSE "accepted"

\* BaseAgent.retrieve_data on cached_data: returned if the gate accepts it.
CacheVerdict(data) ==
  IF CacheGateAccepts(data) THEN "accepted" ELSE "rejected"

gate_payload ==
  /\ gate.state = "idle"
  /\ \E data \in Payloads : gate' = [GateIdle EXCEPT !.state = "checking", !.data = data]
  /\ UNCHANGED <<now, rag, call, unit, retry, planner, gateway, extra>>

gate_store ==
  /\ gate.state = "checking"
  /\ gate.store = "pending"
  /\ gate' = [gate EXCEPT !.store = StoreVerdict(gate.data)]
  /\ UNCHANGED <<now, rag, call, unit, retry, planner, gateway, extra>>

gate_cache ==
  /\ gate.state = "checking"
  /\ gate.cache = "pending"
  /\ gate' = [gate EXCEPT !.cache = CacheVerdict(gate.data)]
  /\ UNCHANGED <<now, rag, call, unit, retry, planner, gateway, extra>>

gate_done ==
  /\ gate.state = "checking"
  /\ gate.store /= "pending"
  /\ gate.cache /= "pending"
  /\ gate' = GateIdle
  /\ UNCHANGED <<now, rag, call, unit, retry, planner, gateway, extra>>

NextGate ==
  \/ gate_payload
  \/ gate_store
  \/ gate_cache
  \/ gate_done

SpecGate == Init /\ [][NextGate]_vars

(***************************************************************************)
(* Text operations of the plan generator: str methods, number formatting   *)
(* and the regular expressions of src/utils/text_processing.py,            *)
(* src/agents/drug_dosage_agent.py and src/main.py.                        *)
(***************************************************************************)
\* s.startswith(p), s.endswith(p)
StartsWith(s, p) == Len(p) <= Len(s) /\ SubSeq(s, 1, Len(p)) = p
EndsWith(s, p) == Len(p) <= Len(s) /\ SubSeq(s, Len(s) - Len(p) + 1, Len(s)) = p

\* The characters \s matches and str.strip() removes.
IsSpace(c) == c \in {" ", "\n", "\t", "\r"}
\* The characters \d matches.
DecimalDigits == <<"0", "1", "2", "3", "4", "5", "6", "7", "8", "9">>
IsDigit(c) == \E i \in 1..10 : DecimalDigits[i] = c

\* s.strip()
Strip(s) ==
  The({
    The({
      IF kept = {} THEN <<>>
      ELSE SubSeq(t, CHOOSE i \in kept : \A j \in kept : i <= j,
                     CHOOSE i \in kept : \A j \in kept : j <= i)
                   : kept \in {{i \in 1..Len(t) : ~IsSpace(t[i])}}})
                   : t \in {s}})

\* s.split('\n'): the pieces between newlines, empty ones included.
RECURSIVE SplitLines(_)
SplitLines(s) ==
  The({
    The({
      IF breaks = {} THEN <<t>>
      ELSE The({
             <<SubSeq(t, 1, i - 1)>> \o SplitLines(SubSeq(t, i + 1, Len(t)))
           : i \in {CHOOSE b \in breaks : \A c \in breaks : b <= c}})
           : breaks \in {{i \in 1..Len(t) : t[i] = "\n"}}})
           : t \in {s}})

\* [x.strip() for x in s.split('\n') if x.strip()]
RECURSIVE StrippedOf(_)
StrippedOf(pieces) ==
  IF pieces = <<>> THEN <<>>
  ELSE The({IF x = <<>> THEN <<>> ELSE <<x>> : x \in {Strip(pieces[1])}})
       \o StrippedOf(Tail(pieces))
StrippedLines(s) == The({StrippedOf(pieces) : pieces \in {SplitLines(s)}})

\* str.upper() of one character.
UpperChar(c) ==
  IF \E i \in 1..Len(LowerCase) : LowerCase[i] = c
  THEN UpperCase[CHOOSE i \in 1..Len(LowerCase) : LowerCase[i] = c]
  ELSE c

\* s.capitalize(): the first character upper-cased, the rest lower-cased.
Capitalize(s) ==
  The({[i \in 1..Len(t) |-> IF i = 1 THEN UpperChar(t[1]) ELSE LowerChar(t[i])]
  : t \in {s}})

\* s.replace(old, new) for a non-empty old: every occurrence, left to right.
RECURSIVE ReplaceText(_, _, _)
ReplaceText(s, old, new) ==
  The({
    The({
      IF found = {} THEN t
      ELSE The({
             SubSeq(t, 1, i - 1) \o new
             \o ReplaceText(SubSeq(t, i + Len(old), Len(t)), old, new)
           : i \in {CHOOSE m \in found : \A n \in found : m <= n}})
           : found \in {{i \in 1..(Len(t) - Len(old) + 1) : SubSeq(t, i, i + Len(old) - 1) = old}}})
           : t \in {s}})

\* str(n) of a natural number.
RECURSIVE NatText(_)
NatText(n) ==
  The({
    IF m < 10 THEN <<DecimalDigits[m + 1]>>
    ELSE NatText(m \div 10) \o <<DecimalDigits[(m % 10) + 1]>> : m \in {n}})

\* int(text) of a run of digits.
RECURSIVE TextNat(_)
TextNat(s) ==
  The({
    IF t = <<>> THEN 0
    ELSE 10 * TextNat(SubSeq(t, 1, Len(t) - 1))
         + ((CHOOSE i \in 1..10 : DecimalDigits[i] = t[Len(t)]) - 1) : t \in {s}})

\* str(x) of a float with an integral value, as restrict_numeric returns it.
FloatText(n) == NatText(n) \o <<".", "0">>

(***************************************************************************)
(* Regular expressions.  A pattern is a tree of nodes; Ends(p, s, i) is    *)
(* the set of positions at which a match of p that starts at position i of *)
(* s can end (the position after its last character).  The text is         *)
(* lower-cased by the caller for re.IGNORECASE.                            *)
(***************************************************************************)
Lit(text) == [k |-> "lit", s |-> text]
DigitsP == [k |-> "digits"]   \* \d+
SpacesP == [k |-> "spaces"]   \* \s*
AnyP == [k |-> "any"]         \* .* and .*?: any characters but a newline
NotGtP == [k |-> "notgt"]     \* [^>]*
SeqP(ps) == [k |-> "seq", ps |-> ps]
AltP(ps) == [k |-> "alt", ps |-> ps]
OptP(p) == [k |-> "opt", p |-> p]
PlusP(p) == [k |-> "plus", p |-> p]

\* The characters a repetition runs over: \d, \s, any character but a
\* newline, any character but ">".
InClass(class, c) ==
  CASE class = "digits" -> IsDigit(c)
    [] class = "spaces" -> IsSpace(c)
    [] class = "any"    -> c /= "\n"
    [] class = "notgt"  -> c /= ">"

\* The first position from i on whose character is not of a class, or the
\* position after the text.
RunStop(s, i, class) ==
  IF i > Len(s) \/ ~InClass(class, s[i]) THEN i
  ELSE The({
         IF stops = {} THEN Len(s) + 1 ELSE CHOOSE m \in stops : \A n \in stops : m <= n
       : stops \in {{m \in i..Len(s) : ~InClass(class, s[m])}}})

\* The positions a run of characters of a class that starts at i can end at.
RunEnds(s, i, class) == i..RunStop(s, i, class)

RECURSIVE Ends(_, _, _)
RECURSIVE EndsSeq(_, _, _)
RECURSIVE EndsPlus(_, _, _, _)
Ends(p, s, i) ==
  CASE p.k = "lit" ->
         IF i + Len(p.s) - 1 <= Len(s) /\ SubSeq(s, i, i + Len(p.s) - 1) = p.s
         THEN {i + Len(p.s)} ELSE {}
    [] p.k = "digits" -> RunEnds(s, i, "digits") \ {i}
    [] p.k = "spaces" -> RunEnds(s, i, "spaces")
    [] p.k = "any"    -> RunEnds(s, i, "any")
    [] p.k = "notgt"  -> RunEnds(s, i, "notgt")
    [] p.k = "seq"    -> EndsSeq(p.ps, s, i)
    [] p.k = "alt"    -> UNION {Ends(p.ps[n], s, i) : n \in 1..Len(p.ps)}
    [] p.k = "opt"    -> {i} \cup Ends(p.p, s, i)
    [] p.k = "plus"   -> EndsPlus(p.p, s, Ends(p.p, s, i), {})

EndsSeq(ps, s, i) ==
  IF Len(ps) = 0 THEN {i}
  ELSE UNION {EndsSeq(Tail(ps), s, j) : j \in Ends(ps[1], s, i)}

\* One or more repetitions: the ends reached, closed under one more match.
EndsPlus(p, s, frontier, seen) ==
  The({
    IF x[1] \subseteq x[2] THEN x[2]
    ELSE EndsPlus(p, s, UNION {Ends(p, s, j) : j \in x[1]} \ (x[2] \cup x[1]), x[2] \cup x[1])
  : x \in {<<frontier, seen>>}})

Least(S) == CHOOSE x \in S : \A y \in S : x <= y
Greatest(S) == CHOOSE x \in S : \A y \in S : y <= x

\* The positions at which a match of p can start.
Starts(p, s) == {i \in 1..(Len(s) + 1) : Ends(p, s, i) /= {}}

\* re.search(p, s) for a pattern whose repetitions are all greedy: the
\* leftmost match, [found, start, end) with end the position after it.
Search(p, s) ==
  The({
    The({
      IF starts = {} THEN [found |-> FALSE, start |-> 0, end |-> 0]
      ELSE The({
             [found |-> TRUE, start |-> i, end |-> Greatest(Ends(p, t, i))]
           : i \in {Least(starts)}})
           : starts \in {Starts(p, t)}})
           : t \in {s}})


(***************************************************************************)
(* The texts of the plan generator.                                        *)
(***************************************************************************)
S_fever == \* "fever" (5 characters)
  <<"f","e","v","e","r">>
S_acetaminophen == \* "acetaminophen" (13 characters)
  <<"a","c","e","t","a","m","i","n","o","p","h","e","n">>
S_ibuprofen == \* "ibuprofen" (9 characters)
  <<"i","b","u","p","r","o","f","e","n">>
S_no_dosage == \* "no dosage" (9 characters)
  <<"n","o"," ","d","o","s","a","g","e">>
S_no_specific_dosage == \* "No specific dosage found for " (29 characters)
  <<"N","o"," ","s","p","e","c","i","f","i","c"," ","d","o","s","a","g","e"," ","f","o","u","n","d"," ","f","o","r"," ">>
S_at_age == \* " at age " (8 characters)
  <<" ","a","t"," ","a","g","e"," ">>
S_to == \* " to " (4 characters)
  <<" ","t","o"," ">>
S_as_needed == \* "as needed" (9 characters)
  <<"a","s"," ","n","e","e","d","e","d">>
S_not_to_exceed == \* "not to exceed" (13 characters)
  <<"n","o","t"," ","t","o"," ","e","x","c","e","e","d">>
S_max == \* "max" (3 characters)
  <<"m","a","x">>
S_day == \* "day" (3 characters)
  <<"d","a","y">>
S_no_interactions_found == \* "no food/alcohol interactions found" (34 characters)
  <<"n","o"," ","f","o","o","d","/","a","l","c","o","h","o","l"," ","i","n","t","e","r","a","c","t","i","o","n","s"," ","f","o","u","n","d">>
S_no_interactions_summary == \* "No interactions." (16 characters)
  <<"N","o"," ","i","n","t","e","r","a","c","t","i","o","n","s",".">>
S_alcohol == \* "alcohol" (7 characters)
  <<"a","l","c","o","h","o","l">>
S_liver_risk == \* "Avoid alcohol; liver risk." (26 characters)
  <<"A","v","o","i","d"," ","a","l","c","o","h","o","l",";"," ","l","i","v","e","r"," ","r","i","s","k",".">>
S_stomach_bleeding == \* "Avoid alcohol; stomach bleeding." (32 characters)
  <<"A","v","o","i","d"," ","a","l","c","o","h","o","l",";"," ","s","t","o","m","a","c","h"," ","b","l","e","e","d","i","n","g",".">>
S_sedation_risk == \* "Avoid alcohol; sedation risk." (29 characters)
  <<"A","v","o","i","d"," ","a","l","c","o","h","o","l",";"," ","s","e","d","a","t","i","o","n"," ","r","i","s","k",".">>
S_high_blood_pressure == \* "high blood pressure" (19 characters)
  <<"h","i","g","h"," ","b","l","o","o","d"," ","p","r","e","s","s","u","r","e">>
S_hypertension == \* "hypertension" (12 characters)
  <<"h","y","p","e","r","t","e","n","s","i","o","n">>
S_use_cautiously == \* "Use cautiously with hypertension." (33 characters)
  <<"U","s","e"," ","c","a","u","t","i","o","u","s","l","y"," ","w","i","t","h"," ","h","y","p","e","r","t","e","n","s","i","o","n",".">>
S_check_with_doctor == \* "Check with doctor." (18 characters)
  <<"C","h","e","c","k"," ","w","i","t","h"," ","d","o","c","t","o","r",".">>
S_hello == \* "Hello!" (6 characters)
  <<"H","e","l","l","o","!">>
S_follow == \* "Follow doctor\u2019s advice!" (23 characters)
  <<"F","o","l","l","o","w"," ","d","o","c","t","o","r","U+2019","s"," ","a","d","v","i","c","e","!">>
S_caution == \* "Caution! " (9 characters)
  <<"C","a","u","t","i","o","n","!"," ">>
S_consult == \* "Consult a doctor!" (17 characters)
  <<"C","o","n","s","u","l","t"," ","a"," ","d","o","c","t","o","r","!">>
S_dosage_plan == \* "Dosage Plan:\n" (13 characters)
  <<"D","o","s","a","g","e"," ","P","l","a","n",":","\n">>
S_interaction_plan == \* "\n\nInteraction Plan:\n" (20 characters)
  <<"\n","\n","I","n","t","e","r","a","c","t","i","o","n"," ","P","l","a","n",":","\n">>
S_disclaimer == \* "\n\n\u26A0\uFE0F This is not a substitute for professional medical advice. Always consult a doctor." (87 characters)
  <<"\n","\n","U+26A0","U+FE0F"," ","T","h","i","s"," ","i","s"," ","n","o","t"," ","a"," ","s","u","b","s","t","i","t","u","t","e"," ","f","o","r"," ","p","r","o","f","e","s","s","i","o","n","a","l"," ","m","e","d","i","c","a","l"," ","a","d","v","i","c","e","."," ","A","l","w","a","y","s"," ","c","o","n","s","u","l","t"," ","a"," ","d","o","c","t","o","r",".">>
S_unavailable == \* "Unable to generate plan due to API unavailability." (50 characters)
  <<"U","n","a","b","l","e"," ","t","o"," ","g","e","n","e","r","a","t","e"," ","p","l","a","n"," ","d","u","e"," ","t","o"," ","A","P","I"," ","u","n","a","v","a","i","l","a","b","i","l","i","t","y",".">>
S_insufficient == \* "Error: Insufficient drug data." (30 characters)
  <<"E","r","r","o","r",":"," ","I","n","s","u","f","f","i","c","i","e","n","t"," ","d","r","u","g"," ","d","a","t","a",".">>
S_hello_for_your == \* "Hello! For your " (16 characters)
  <<"H","e","l","l","o","!"," ","F","o","r"," ","y","o","u","r"," ">>
S_year_old_with == \* "-year-old with " (15 characters)
  <<"-","y","e","a","r","-","o","l","d"," ","w","i","t","h"," ">>
S_give == \* ", give " (7 characters)
  <<","," ","g","i","v","e"," ">>
S_open == \* " (" (2 characters)
  <<" ","(">>
S_close_or == \* ") or " (5 characters)
  <<")"," ","o","r"," ">>
S_close_follow == \* "). Follow doctor\u2019s advice!" (26 characters)
  <<")","."," ","F","o","l","l","o","w"," ","d","o","c","t","o","r","U+2019","s"," ","a","d","v","i","c","e","!">>
S_colon_space == \* ": " (2 characters)
  <<":"," ">>
S_space_consult == \* " Consult a doctor!" (18 characters)
  <<" ","C","o","n","s","u","l","t"," ","a"," ","d","o","c","t","o","r","!">>
S_ellipsis == \* "..." (3 characters)
  <<".",".",".">>
T_dose_line == \* "325 mg every 4 hours as needed, not to exceed 5 doses in 24 hours" (65 characters)
  <<"3","2","5"," ","m","g"," ","e","v","e","r","y"," ","4"," ","h","o","u","r","s"," ","a","s"," ","n","e","e","d","e","d",","," ","n","o","t"," ","t","o"," ","e","x","c","e","e","d"," ","5"," ","d","o","s","e","s"," ","i","n"," ","2","4"," ","h","o","u","r","s">>
T_dose_range == \* "Usual dose: 200 to 400 mg orally every 4 to 6 hours; Not to Exceed 6 doses in 24 hours" (86 characters)
  <<"U","s","u","a","l"," ","d","o","s","e",":"," ","2","0","0"," ","t","o"," ","4","0","0"," ","m","g"," ","o","r","a","l","l","y"," ","e","v","e","r","y"," ","4"," ","t","o"," ","6"," ","h","o","u","r","s",";"," ","N","o","t"," ","t","o"," ","E","x","c","e","e","d"," ","6"," ","d","o","s","e","s"," ","i","n"," ","2","4"," ","h","o","u","r","s">>
T_dose_per_kg == \* "10 to 15 mg/kg every 4 to 6 hours not to exceed 5 doses in 24 hours" (67 characters)
  <<"1","0"," ","t","o"," ","1","5"," ","m","g","/","k","g"," ","e","v","e","r","y"," ","4"," ","t","o"," ","6"," ","h","o","u","r","s"," ","n","o","t"," ","t","o"," ","e","x","c","e","e","d"," ","5"," ","d","o","s","e","s"," ","i","n"," ","2","4"," ","h","o","u","r","s">>
T_dose_per_kg_single == \* "Children: 10 mg/kg orally" (25 characters)
  <<"C","h","i","l","d","r","e","n",":"," ","1","0"," ","m","g","/","k","g"," ","o","r","a","l","l","y">>
T_alcohol_interaction == \* "Major Interaction: Alcohol\nAvoid alcohol. May raise high blood pressure." (72 characters)
  <<"M","a","j","o","r"," ","I","n","t","e","r","a","c","t","i","o","n",":"," ","A","l","c","o","h","o","l","\n","A","v","o","i","d"," ","a","l","c","o","h","o","l","."," ","M","a","y"," ","r","a","i","s","e"," ","h","i","g","h"," ","b","l","o","o","d"," ","p","r","e","s","s","u","r","e",".">>
G_valid == \* "Hello! Give Acetaminophen 325 mg every 4 hours. Follow doctor\u2019s advice!\nCaution! Avoid alcohol. Consult a doctor!" (113 characters)
  <<"H","e","l","l","o","!"," ","G","i","v","e"," ","A","c","e","t","a","m","i","n","o","p","h","e","n"," ","3","2","5"," ","m","g"," ","e","v","e","r","y"," ","4"," ","h","o","u","r","s","."," ","F","o","l","l","o","w"," ","d","o","c","t","o","r","U+2019","s"," ","a","d","v","i","c","e","!","\n","C","a","u","t","i","o","n","!"," ","A","v","o","i","d"," ","a","l","c","o","h","o","l","."," ","C","o","n","s","u","l","t"," ","a"," ","d","o","c","t","o","r","!">>
G_prefixed == \* "assistant\n\nHello! Give Acetaminophen 325 mg every 4 hours. Follow doctor\u2019s advice!\n\nCaution! Avoid alcohol. Consult a doctor!" (125 characters)
  <<"a","s","s","i","s","t","a","n","t","\n","\n","H","e","l","l","o","!"," ","G","i","v","e"," ","A","c","e","t","a","m","i","n","o","p","h","e","n"," ","3","2","5"," ","m","g"," ","e","v","e","r","y"," ","4"," ","h","o","u","r","s","."," ","F","o","l","l","o","w"," ","d","o","c","t","o","r","U+2019","s"," ","a","d","v","i","c","e","!","\n","\n","C","a","u","t","i","o","n","!"," ","A","v","o","i","d"," ","a","l","c","o","h","o","l","."," ","C","o","n","s","u","l","t"," ","a"," ","d","o","c","t","o","r","!">>
G_single == \* "Hello! Give Acetaminophen 325 mg every 4 hours and avoid alcohol. Consult a doctor!" (83 characters)
  <<"H","e","l","l","o","!"," ","G","i","v","e"," ","A","c","e","t","a","m","i","n","o","p","h","e","n"," ","3","2","5"," ","m","g"," ","e","v","e","r","y"," ","4"," ","h","o","u","r","s"," ","a","n","d"," ","a","v","o","i","d"," ","a","l","c","o","h","o","l","."," ","C","o","n","s","u","l","t"," ","a"," ","d","o","c","t","o","r","!">>
G_three == \* "Hello! Give Acetaminophen 325 mg every 4 hours. Follow doctor\u2019s advice!\nCaution! Avoid alcohol. Consult a doctor!\nStay hydrated." (128 characters)
  <<"H","e","l","l","o","!"," ","G","i","v","e"," ","A","c","e","t","a","m","i","n","o","p","h","e","n"," ","3","2","5"," ","m","g"," ","e","v","e","r","y"," ","4"," ","h","o","u","r","s","."," ","F","o","l","l","o","w"," ","d","o","c","t","o","r","U+2019","s"," ","a","d","v","i","c","e","!","\n","C","a","u","t","i","o","n","!"," ","A","v","o","i","d"," ","a","l","c","o","h","o","l","."," ","C","o","n","s","u","l","t"," ","a"," ","d","o","c","t","o","r","!","\n","S","t","a","y"," ","h","y","d","r","a","t","e","d",".">>
G_ascii == \* "Hello! Give Acetaminophen 325 mg every 4 hours. Follow doctor's advice!\nCaution! Avoid alcohol. Consult a doctor!" (113 characters)
  <<"H","e","l","l","o","!"," ","G","i","v","e"," ","A","c","e","t","a","m","i","n","o","p","h","e","n"," ","3","2","5"," ","m","g"," ","e","v","e","r","y"," ","4"," ","h","o","u","r","s","."," ","F","o","l","l","o","w"," ","d","o","c","t","o","r","'","s"," ","a","d","v","i","c","e","!","\n","C","a","u","t","i","o","n","!"," ","A","v","o","i","d"," ","a","l","c","o","h","o","l","."," ","C","o","n","s","u","l","t"," ","a"," ","d","o","c","t","o","r","!">>
G_uncautioned == \* "Hello! Give Acetaminophen 325 mg every 4 hours. Follow doctor\u2019s advice!\nAvoid alcohol. Consult a doctor!" (104 characters)
  <<"H","e","l","l","o","!"," ","G","i","v","e"," ","A","c","e","t","a","m","i","n","o","p","h","e","n"," ","3","2","5"," ","m","g"," ","e","v","e","r","y"," ","4"," ","h","o","u","r","s","."," ","F","o","l","l","o","w"," ","d","o","c","t","o","r","U+2019","s"," ","a","d","v","i","c","e","!","\n","A","v","o","i","d"," ","a","l","c","o","h","o","l","."," ","C","o","n","s","u","l","t"," ","a"," ","d","o","c","t","o","r","!">>
S_caution_line == \* "\nCaution! Avoid alcohol. Consult a doctor!" (42 characters)
  <<"\n","C","a","u","t","i","o","n","!"," ","A","v","o","i","d"," ","a","l","c","o","h","o","l","."," ","C","o","n","s","u","l","t"," ","a"," ","d","o","c","t","o","r","!">>

(***************************************************************************)
(* src/utils/text_processing.py and src/agents/drug_dosage_agent.py.       *)
(* A weight is <<>> for None and <<w>> for the float w; ages and weights   *)
(* have integral values.                                                   *)
(***************************************************************************)
\* (?:to\s*\d+\s*)?
ToP == OptP(SeqP(<<Lit(<<"t","o">>), SpacesP, DigitsP, SpacesP>>))

\* (\d+\s*(?:to\s*\d+\s*)?(?:mg|ml))
DoseP == SeqP(<<DigitsP, SpacesP, ToP, AltP(<<Lit(S_mg), Lit(S_ml)>>)>>)

\* not to exceed\s*\d+\s*doses\s*in\s*24\s*hours
LimitP ==
  SeqP(<<Lit(S_not_to_exceed), SpacesP, DigitsP, SpacesP, Lit(<<"d","o","s","e","s">>), SpacesP,
         Lit(<<"i","n">>), SpacesP, Lit(<<"2","4">>), SpacesP, Lit(<<"h","o","u","r","s">>)>>)

\* (every\s*\d+\s*(?:to\s*\d+\s*)?hours.*?not to exceed\s*\d+\s*doses\s*in\s*24\s*hours)
FreqP ==
  SeqP(<<Lit(<<"e","v","e","r","y">>), SpacesP, DigitsP, SpacesP, ToP,
         Lit(<<"h","o","u","r","s">>), AnyP, LimitP>>)

\* The dose and frequency pattern of extract_dose_frequency and process_data.
DoseFrequencyP == SeqP(<<DoseP, AnyP, FreqP>>)

\* (\d+\s*to\s*\d+\s*mg/kg|\d+\s*mg/kg)
MgKgP ==
  AltP(<<SeqP(<<DigitsP, SpacesP, Lit(<<"t","o">>), SpacesP, DigitsP, SpacesP,
                Lit(<<"m","g","/","k","g">>)>>),
         SeqP(<<DigitsP, SpacesP, Lit(<<"m","g","/","k","g">>)>>)>>)

\* (every\s*\d+\s*to\s*\d+\s*hours|every\s*\d+\s*hours)
EveryP ==
  AltP(<<SeqP(<<Lit(<<"e","v","e","r","y">>), SpacesP, DigitsP, SpacesP, Lit(<<"t","o">>), SpacesP,
                DigitsP, SpacesP, Lit(<<"h","o","u","r","s">>)>>),
         SeqP(<<Lit(<<"e","v","e","r","y">>), SpacesP, DigitsP, SpacesP,
                Lit(<<"h","o","u","r","s">>)>>)>>)

\* in\s*24\s*hours
In24HoursP ==
  SeqP(<<Lit(<<"i","n">>), SpacesP, Lit(<<"2","4">>), SpacesP, Lit(<<"h","o","u","r","s">>)>>)

\* re.search of the dose and frequency pattern, re.IGNORECASE: the leftmost
\* match, the first group as long as it can be, the lazy .*? as short as
\* they can be.
DoseFrequencyMatch(line) ==
  The({
    The({
      IF starts = {}
      THEN [found |-> FALSE, start |-> 0, dose_end |-> 0, freq_start |-> 0, end |-> 0]
      ELSE The({
        The({
          The({
            [found |-> TRUE, start |-> i, dose_end |-> e1, freq_start |-> j,
             end |-> Least(Ends(FreqP, s, j))]
           : j \in {Least({m \in Ends(AnyP, s, e1) : Ends(FreqP, s, m) /= {}})}})
           : e1 \in {Greatest({e \in Ends(DoseP, s, i) : Ends(SeqP(<<AnyP, FreqP>>), s, e) /= {}})}})
           : i \in {Least(starts)}})
           : starts \in {Starts(DoseFrequencyP, s)}})
           : s \in {Lower(line)}})

\* re.sub(p, repl, s, flags=re.IGNORECASE) for a pattern that matches no
\* empty text: every match replaced, left to right.
RECURSIVE SubAll(_, _, _)
SubAll(p, s, repl) ==
  The({
    The({
      IF ~m.found THEN t
      ELSE SubSeq(t, 1, m.start - 1) \o repl \o SubAll(p, SubSeq(t, m.end, Len(t)), repl)
    : m \in {Search(p, Lower(t))}})
    : t \in {s}})

\* TextProcessor.extract_dose_frequency
extract_dose_frequency(dosage_line) ==
  The({
    The({
      IF m.found
      THEN LET dose == SubSeq(line, m.start, m.dose_end - 1)
               freq == SubSeq(line, m.freq_start, m.end - 1)
           IN  dose \o S_space
               \o SubAll(In24HoursP, ReplaceText(freq, S_not_to_exceed, S_max), S_day)
      ELSE line : m \in {DoseFrequencyMatch(line)}})
    : line \in {dosage_line}})

\* TextProcessor.summarize_interaction
summarize_interaction(interaction_text, drug_name) ==
  The({
    IF Contains(low[1], S_no_interactions_found) THEN S_no_interactions_summary
    ELSE LET alcohol ==
               IF ~Contains(low[1], S_alcohol) THEN <<>>
               ELSE IF Contains(low[2], S_acetaminophen) THEN <<S_liver_risk>>
               ELSE IF Contains(low[2], S_ibuprofen) \/ Contains(low[2], S_aspirin)
                    THEN <<S_stomach_bleeding>>
               ELSE <<S_sedation_risk>>
             pressure ==
               IF Contains(low[1], S_high_blood_pressure) \/ Contains(low[1], S_hypertension)
               THEN <<S_use_cautiously>> ELSE <<>>
         IN  The({
               IF summary /= <<>> THEN Join(summary, S_space) ELSE S_check_with_doctor
             : summary \in {alcohol \o pressure}})
             : low \in {<<Lower(interaction_text), Lower(drug_name)>>}})

\* re.findall(r'\d+', s): the runs of digits of s, as numbers.
RECURSIVE DigitRuns(_)
DigitRuns(s) ==
  The({
    The({
      IF ~m.found THEN <<>>
      ELSE <<TextNat(SubSeq(t, m.start, m.end - 1))>> \o DigitRuns(SubSeq(t, m.end, Len(t)))
    : m \in {Search(DigitsP, t)}})
    : t \in {s}})

\* The text a pattern matches in a line, or a default.
Group(p, line, default) ==
  The({
    The({
      IF m.found THEN SubSeq(t, m.start, m.end - 1) ELSE default
    : m \in {Search(p, Lower(t))}})
    : t \in {line}})

\* The first line of lines that gives a dose per kg (the search of
\* r'\d+\s*(?:to\s*\d+\s*)?mg/kg' in process_data's loop), or 0.
FirstPerKg(lines) ==
  The({IF found = {} THEN 0 ELSE Least(found) :
       found \in {{n \in 1..Len(lines) : Search(MgKgP, Lower(lines[n])).found}}})

\* The first line of lines that gives a dose and a frequency, or 0.
FirstDoseFrequency(lines) ==
  The({IF found = {} THEN 0 ELSE Least(found) :
       found \in {{n \in 1..Len(lines) : DoseFrequencyMatch(lines[n]).found}}})

\* process_data's weight-based dose of a line that gives mg/kg.
WeightBased(line, weight_kg) ==
  The({
    LET dose_range == IF Len(doses) = 1
                      THEN NatText(doses[1] * weight_kg) \o S_space \o S_mg
                      ELSE NatText(doses[1] * weight_kg) \o S_to \o NatText(doses[2] * weight_kg)
                           \o S_space \o S_mg
        frequency == Group(EveryP, line, S_as_needed)
        max_limit == Group(LimitP, line, <<>>)
    IN  Strip(dose_range \o S_space \o frequency \o S_space \o max_limit)
  : doses \in {DigitRuns(Group(MgKgP, line, <<>>))}})

\* DrugDosageAgent.process_data
process_data(drug_name, dosage_text, weight, age) ==
  LET pediatric == age < 18
      weight_kg == IF weight = <<>> THEN -1 ELSE weight[1]
      weighed == pediatric /\ weight_kg > 0
      none == S_no_specific_dosage \o drug_name \o S_at_age \o FloatText(age) \o S_dot
      Whole(lines) ==
        The({IF whole = 0 THEN none
             ELSE The({SubSeq(lines[whole], m.start, m.end - 1) :
                       m \in {DoseFrequencyMatch(lines[whole])}}) :
             whole \in {FirstDoseFrequency(lines)}})
      Dose(lines) ==
        The({IF per_kg /= 0 THEN WeightBased(lines[per_kg], weight_kg)
             ELSE IF weighed THEN none
             ELSE Whole(lines) :
             per_kg \in {IF weighed THEN FirstPerKg(lines) ELSE 0}})
  IN  The({IF ~Truthy(text) \/ Contains(Lower(text), S_no_dosage)
           THEN S_no_dosage_information \o drug_name \o S_dot
           ELSE The({Dose(lines) : lines \in {StrippedLines(text)}}) :
           text \in {dosage_text}})

S_dose_head == \* "325 mg every 4 hours " (21 characters)
  <<"3","2","5"," ","m","g"," ","e","v","e","r","y"," ","4"," ","h","o","u","r","s"," ">>
S_dose_tail == \* "not to exceed 5 doses in 24 hours" (33 characters)
  <<"n","o","t"," ","t","o"," ","e","x","c","e","e","d"," ","5"," ","d","o","s","e","s"," ","i","n"," ","2","4"," ","h","o","u","r","s">>
S_no_dosage_section_text == \* "No dosage section found for acetaminophen in adult context." (59 characters)
  <<"N","o"," ","d","o","s","a","g","e"," ","s","e","c","t","i","o","n"," ","f","o","u","n","d"," ","f","o","r"," ","a","c","e","t","a","m","i","n","o","p","h","e","n"," ","i","n"," ","a","d","u","l","t"," ","c","o","n","t","e","x","t",".">>
S_md5 == \* "md5:" (4 characters)
  <<"m","d","5",":">>
S_None == \* "None" (4 characters)
  <<"N","o","n","e">>
S_assistant == \* "assistant" (9 characters)
  <<"a","s","s","i","s","t","a","n","t">>
S_user == \* "user" (4 characters)
  <<"u","s","e","r">>
S_system == \* "system" (6 characters)
  <<"s","y","s","t","e","m">>

(***************************************************************************)
(* src/main.py: generate_mitigation_plan over RAGClient.plan_cache.  The    *)
(* calls follow one another with no time between them.  Of the files       *)
(* RAGClient.save_caches writes, the plan cache's is kept.                 *)
(***************************************************************************)
\* (?:assistant|user|system|<\|[^>]*\|>)+[\s\n]*
RoleP ==
  SeqP(<<PlusP(AltP(<<Lit(S_assistant), Lit(S_user), Lit(S_system),
                      SeqP(<<Lit(<<"<","|">>), NotGtP, Lit(<<"|",">">>)>>)>>)),
         SpacesP>>)

\* re.sub(r'^(?:...)+[\s\n]*', '', s, flags=re.MULTILINE | re.IGNORECASE)
\* from position i on: ^ matches at the start and after every newline.
RECURSIVE StripRolesFrom(_, _)
StripRolesFrom(s, i) ==
  The({
    The({
      IF starts = {} THEN SubSeq(s, i, Len(s))
      ELSE The({
             The({
               SubSeq(s, i, m - 1) \o StripRolesFrom(s, e)
             : e \in {Greatest(Ends(RoleP, low, m))}})
             : m \in {Least(starts)}})
             : starts \in {{m \in i..Len(s) : (m = 1 \/ s[m - 1] = "\n") /\ Ends(RoleP, low, m) /= {}}}})
             : low \in {Lower(s)}})
StripRoles(s) == The({StripRolesFrom(t, 1) : t \in {s}})

\* The paragraphs of a generated text.
Paragraphs(text) == StrippedLines(StripRoles(text))

\* A validation that does not look at the length of the paragraphs.
ValidPlanAnyLength(paragraphs) ==
  /\ Len(paragraphs) = 2
  /\ StartsWith(paragraphs[1], S_hello)
  /\ EndsWith(paragraphs[1], S_follow)
  /\ StartsWith(paragraphs[2], S_caution)
  /\ EndsWith(paragraphs[2], S_consult)

\* The structural validation of generate_mitigation_plan.
ValidPlan(paragraphs) ==
  /\ Len(paragraphs) = 2
  /\ StartsWith(paragraphs[1], S_hello)
  /\ EndsWith(paragraphs[1], S_follow)
  /\ StartsWith(paragraphs[2], S_caution)
  /\ EndsWith(paragraphs[2], S_consult)
  /\ Len(paragraphs[1]) <= PARAGRAPH_LIMIT
  /\ Len(paragraphs[2]) <= PARAGRAPH_LIMIT

\* final_plan = f"Dosage Plan:\n{...}\n\nInteraction Plan:\n{...}"
FinalPlan(dosage, interaction) == S_dosage_plan \o dosage \o S_interaction_plan \o interaction

\* What generate_mitigation_plan returns for a plan.
WithDisclaimer(final_plan) == final_plan \o S_disclaimer

\* A cut that applies from PARAGRAPH_LIMIT characters on.
CutFromLimit(paragraph) ==
  The({
    IF Len(x) >= PARAGRAPH_LIMIT THEN SubSeq(x, 1, PARAGRAPH_CUT) \o S_ellipsis ELSE x
  : x \in {paragraph}})

\* if len(x) > 400: x = x[:397] + "..."
Cut(paragraph) ==
  The({
    IF Len(x) > PARAGRAPH_LIMIT THEN SubSeq(x, 1, PARAGRAPH_CUT) \o S_ellipsis ELSE x
  : x \in {paragraph}})

\* f"{weight}" of a weight.
WeightText(weight) == IF weight = <<>> THEN S_None ELSE FloatText(weight[1])

\* A dosage line too long for a fallback paragraph.
T_dose_long == S_dose_head \o Pad(LongLine) \o S_space \o S_dose_tail

\* config SYMPTOM_DRUGS, for the symptoms used.
SYMPTOM_DRUGS(symptom) ==
  IF symptom = S_fever THEN <<S_acetaminophen, S_ibuprofen>> ELSE <<S_acetaminophen, S_aspirin>>

\* drug_data as main builds it: for each drug of the symptom, in order, its
\* dosage details and its interactions.
DrugData(symptom, dosage1, dosage2) ==
  <<<<SYMPTOM_DRUGS(symptom)[1],
      <<<<"dosage_details", dosage1>>, <<"interactions", T_alcohol_interaction>>>>>>,
    <<SYMPTOM_DRUGS(symptom)[2],
      <<<<"dosage_details", dosage2>>, <<"interactions", S_no_interactions>>>>>>>>

\* The arguments of the calls made: adult and pediatric patients, with and
\* without a weight, dosage details of each kind, and drug_data that main
\* does not build (one drug only; a key that is not lower-case; no fields).
PlanInputs ==
  <<[symptom |-> S_fever, age |-> 30, weight |-> <<70>>,
     drug_data |-> DrugData(S_fever, T_dose_range, T_dose_line)],
    [symptom |-> S_fever, age |-> 30, weight |-> <<70>>,
     drug_data |-> DrugData(S_fever, T_dose_long, T_dose)],
    [symptom |-> S_fever, age |-> 5, weight |-> <<20>>,
     drug_data |-> DrugData(S_fever, T_dose_per_kg, T_dose_per_kg_single)],
    [symptom |-> S_pain, age |-> 30, weight |-> <<>>,
     drug_data |-> <<<<S_acetaminophen, <<<<"dosage_details", S_no_dosage_section_text>>>>>>,
                     <<S_aspirin, <<>>>>>>],
    [symptom |-> S_pain, age |-> 30, weight |-> <<70>>,
     drug_data |-> <<<<S_acetaminophen, <<>>>>, <<S_Aspirin, <<>>>>>>],
    [symptom |-> S_pain, age |-> 30, weight |-> <<70>>,
     drug_data |-> <<<<S_acetaminophen, <<>>>>>>]>>

\* The locals generate_mitigation_plan computes before it looks into the
\* plan cache, for arguments with two drugs whose lower-cased names are keys
\* of drug_data.
Locals(inp) ==
  LET drug_names == Keys(inp.drug_data)
      key1 == Lower(drug_names[1])
      key2 == Lower(drug_names[2])
      info1 == Item(inp.drug_data, key1)
      info2 == Item(inp.drug_data, key2)
      display1 == Capitalize(key1)
      display2 == Capitalize(key2)
      line1 == process_data(display1, Get(info1, "dosage_details", <<>>), inp.weight, inp.age)
      line2 == process_data(display2, Get(info2, "dosage_details", <<>>), inp.weight, inp.age)
  IN  [drug1_name_display |-> display1,
       drug2_name_display |-> display2,
       drug1_dosage_concise |-> extract_dose_frequency(line1),
       drug2_dosage_concise |-> extract_dose_frequency(line2),
       drug1_interaction_summary |->
         summarize_interaction(Get(info1, "interactions", S_no_interactions), display1),
       drug2_interaction_summary |->
         summarize_interaction(Get(info2, "interactions", S_no_interactions), display2)]

\* hashlib.md5(...).hexdigest(): a digest that stands for the text hashed.
Md5(text) == S_md5 \o text

\* plan_key
PlanKey(inp) ==
  The({
      Md5(inp.symptom \o S_colon \o FloatText(inp.age) \o S_colon \o WeightText(inp.weight)
          \o S_colon \o l.drug1_name_display \o S_colon \o l.drug2_name_display)
        : l \in {Locals(inp)}})

\* dosage_fallback, before it is cut
DosageFallback(inp) ==
  The({
      S_hello_for_your \o FloatText(inp.age) \o S_year_old_with \o inp.symptom \o S_give
      \o l.drug1_name_display \o S_open \o l.drug1_dosage_concise \o S_close_or
      \o l.drug2_name_display \o S_open \o l.drug2_dosage_concise \o S_close_follow
    : l \in {Locals(inp)}})

\* interaction_fallback, before it is cut
InteractionFallback(inp) ==
  The({
      S_caution \o l.drug1_name_display \o S_colon_space \o l.drug1_interaction_summary
      \o S_space \o l.drug2_name_display \o S_colon_space \o l.drug2_interaction_summary
      \o S_space_consult : l \in {Locals(inp)}})

\* The fallback plan.
FallbackPlan(inp) == FinalPlan(Cut(DosageFallback(inp)), Cut(InteractionFallback(inp)))

\* A plan whose first paragraph is longer than PARAGRAPH_LIMIT.
G_long == S_hello \o S_space \o Pad(PARAGRAPH_LIMIT) \o S_space \o S_follow \o S_caution_line

\* What the generation API answers with: a plan of two paragraphs, the same
\* after a role marker and with a blank line, a single paragraph, three
\* paragraphs, a plan with an ASCII apostrophe in its closing words, a plan
\* without the caution, a plan with a paragraph too long, and no text at all.
Generated ==
  {G_valid, G_prefixed, G_single, G_three, G_ascii, G_uncautioned, G_long, None}

\* RAGClient.generate_text: the text of the API, or the fallback message
\* when the retried request has failed RETRY_MAX_ATTEMPTS times.
generate_text(fails, text) == IF Retry(fails).ok THEN text ELSE S_unavailable

\* What one turn of the loop makes of the text generate_text returned: a
\* text that is no string raises in re.sub, which the loop catches.
Outcome(answer) ==
  IF answer = None THEN [valid |-> FALSE, final_plan |-> <<>>]
  ELSE The({
         IF ValidPlan(paragraphs)
         THEN [valid |-> TRUE, final_plan |-> FinalPlan(paragraphs[1], paragraphs[2])]
         ELSE [valid |-> FALSE, final_plan |-> <<>>]
       : paragraphs \in {Paragraphs(answer)}})

\* The arguments generate_mitigation_plan gets past its first lines with:
\* two drugs whose lower-cased names are keys of drug_data.
Usable(inp) ==
  /\ Len(Keys(inp.drug_data)) >= 2
  /\ Has(inp.drug_data, Lower(Keys(inp.drug_data)[1]))
  /\ Has(inp.drug_data, Lower(Keys(inp.drug_data)[2]))

\* The values above, worked out once for each of the arguments and texts.
PlanKeyOf ==
  [n \in 1..Len(PlanInputs) |-> IF Usable(PlanInputs[n]) THEN PlanKey(PlanInputs[n]) ELSE <<>>]
FallbackPlanOf ==
  [n \in 1..Len(PlanInputs) |-> IF Usable(PlanInputs[n]) THEN FallbackPlan(PlanInputs[n]) ELSE <<>>]
OutcomeOf == [answer \in Generated \cup {S_unavailable} |-> Outcome(answer)]
ParagraphsOf ==
  [answer \in (Generated \cup {S_unavailable}) \ {None} |-> Paragraphs(answer)]
LocalsOf ==
  [n \in {m \in 1..Len(PlanInputs) : Usable(PlanInputs[m])} |-> Locals(PlanInputs[n])]

\* The call in progress, as the call before the next one.
Made(outcome, output) ==
  [made |-> TRUE, key |-> plan.plan_key, outcome |-> outcome, fallback |-> plan.fallback,
   output |-> output]

\* generate_mitigation_plan is called: it returns early, raises KeyError
\* (drug_data[...], or the cache's get), returns the cached plan, or goes on
\* to generate one.
plan_call ==
  /\ plan.state = "idle"
  /\ \E n \in 1..Len(PlanInputs) :
       LET inp == PlanInputs[n]
           drug_names == Keys(inp.drug_data)
           called == [PlanIdle EXCEPT !.input = n, !.before = plan.before]
       IN  IF Len(drug_names) < 2
           THEN /\ plan' = [called EXCEPT !.state = "returned", !.output = S_insufficient]
                /\ UNCHANGED plan_cache
           ELSE IF ~Has(inp.drug_data, Lower(drug_names[1]))
                   \/ ~Has(inp.drug_data, Lower(drug_names[2]))
           THEN /\ plan' = [called EXCEPT !.state = "raised", !.raised = "KeyError"]
                /\ UNCHANGED plan_cache
           ELSE LET plan_key == PlanKeyOf[n]
                    cached_plan == GetValue(plan_cache, plan_key, now)
                IN  IF GetRaises(plan_cache, plan_key)
                    THEN /\ plan' = [called EXCEPT !.state = "raised", !.raised = "KeyError",
                                                   !.plan_key = plan_key]
                         /\ UNCHANGED plan_cache
                    ELSE /\ plan_cache' = GetState(plan_cache, plan_key, now)
                         /\ plan' = IF Truthy(cached_plan)
                                    THEN [called EXCEPT !.state = "returned", !.plan_key = plan_key,
                                                        !.output = WithDisclaimer(cached_plan)]
                                    ELSE [called EXCEPT !.state = "generating", !.plan_key = plan_key]
  /\ UNCHANGED <<now, rag, call, unit, retry, gate, gateway, extra, plan_cache_file>>

\* A loop that lets the failure of a turn out to the caller.
Surfaced(tried) == [tried EXCEPT !.state = "raised", !.raised = "Exception"]

\* A loop that sleeps after every failed turn, the last one included.
FailedSleepsAlways(tried) ==
  [tried EXCEPT !.attempt = @ + 1,
                !.sleeps = Append(@, PLAN_BACKOFF_MS * Pow2(tried.attempt))]

\* The end of a turn that gave no valid plan: the invalid plan, or the
\* exception the loop caught, is logged, and the loop sleeps before the
\* turns that follow.
Failed(tried) ==
  [tried EXCEPT !.attempt = @ + 1,
                !.sleeps = IF tried.attempt < 2
                           THEN Append(@, PLAN_BACKOFF_MS * Pow2(tried.attempt))
                           ELSE @]

\* One turn of "for attempt in range(3)": a valid plan is stored and
\* returned; after an invalid one, or an exception, the loop sleeps and goes
\* on, or ends.
plan_attempt ==
  /\ plan.state = "generating"
  /\ plan.attempt < PLAN_ATTEMPTS
  /\ \E fails \in 0..RETRY_MAX_ATTEMPTS, text \in Generated :
       LET answer == generate_text(fails, text)
           tried == [plan EXCEPT !.generate_calls = @ + 1]
       IN  IF OutcomeOf[answer].valid
           THEN LET final_plan == OutcomeOf[answer].final_plan
                IN  /\ plan_cache' = Put(plan_cache, plan.plan_key, final_plan, now)
                    /\ plan_cache_file' \in Save(plan_cache', plan_cache_file)
                    /\ plan' = [tried EXCEPT !.state = "returned",
                                             !.output = WithDisclaimer(final_plan)]
           ELSE /\ plan' = Failed(tried)
                /\ UNCHANGED <<plan_cache, plan_cache_file>>
  /\ UNCHANGED <<now, rag, call, unit, retry, gate, gateway, extra>>

\* After the loop: the fallback plan is built, stored and returned.
plan_fallback ==
  /\ plan.state = "generating"
  /\ plan.attempt = PLAN_ATTEMPTS
  /\ LET final_plan == FallbackPlanOf[plan.input]
     IN  /\ plan_cache' = Put(plan_cache, plan.plan_key, final_plan, now)
         /\ plan_cache_file' \in Save(plan_cache', plan_cache_file)
         /\ plan' = [plan EXCEPT !.state = "returned", !.fallback = TRUE,
                                 !.output = WithDisclaimer(final_plan)]
  /\ UNCHANGED <<now, rag, call, unit, retry, gate, gateway, extra>>

\* The caller has the plan or the exception.
plan_return ==
  /\ plan.state \in {"returned", "raised"}
  /\ plan' = [PlanIdle EXCEPT !.before = Made(plan.state, plan.output)]
  /\ UNCHANGED <<now, rag, call, unit, retry, gate, gateway, extra, plan_cache, plan_cache_file>>

NextPlan ==
  \/ plan_call
  \/ plan_attempt
  \/ plan_fallback
  \/ plan_return

SpecPlan == Init /\ [][NextPlan]_vars

(***************************************************************************)
(* The cut of a fallback paragraph on its own: dosage_fallback and         *)
(* interaction_fallback of lengths around PARAGRAPH_LIMIT.                 *)
(***************************************************************************)
\* How far below and above PARAGRAPH_LIMIT the lengths of the paragraphs go.
MaxOver == 20

\* The first and the last words of each paragraph.
SectionHead(kind) == IF kind = "dosage" THEN S_hello_for_your ELSE S_caution
SectionTail(kind) == IF kind = "dosage" THEN S_follow ELSE S_consult

\* A paragraph of n characters.
SectionOf(kind, n) ==
  SectionHead(kind) \o Pad(n - Len(SectionHead(kind)) - Len(SectionTail(kind)))
  \o SectionTail(kind)

\* dosage_fallback = (...), interaction_fallback = (...)
section_build ==
  /\ section.state = "idle"
  /\ \E kind \in {"dosage", "interaction"},
        n \in (PARAGRAPH_LIMIT - MaxOver)..(PARAGRAPH_LIMIT + MaxOver) :
       section' = [state |-> "built", kind |-> kind, built |-> SectionOf(kind, n),
                   text |-> SectionOf(kind, n)]
  /\ UNCHANGED <<now, rag, call, unit, retry, gate, planner, gateway, embedding>>

\* if len(x) > 400: x = x[:397] + "..."
section_cut ==
  /\ section.state = "built"
  /\ section' = [section EXCEPT !.state = "cut", !.text = Cut(section.built)]
  /\ UNCHANGED <<now, rag, call, unit, retry, gate, planner, gateway, embedding>>

\* The paragraph goes into final_plan.
section_done ==
  /\ section.state = "cut"
  /\ section' = SectionIdle
  /\ UNCHANGED <<now, rag, call, unit, retry, gate, planner, gateway, embedding>>

NextSection ==
  \/ section_build
  \/ section_cut
  \/ section_done

SpecSection == Init /\ [][NextSection]_vars
(***************************************************************************)
(* src/database/vector_database.py and src/rag_client.py: the life of the  *)
(* store gateway.  A WeaviateAdapter is made on its own, or by             *)
(* RAGClient.__init__, which connects it; close and cleanup are called any *)
(* number of times.  Whether the client's own close() raises is the        *)
(* library's and the network's choice.                                     *)
(***************************************************************************)
\* A close that calls self.client.close() whatever self.client is.
AnyClient(client) == TRUE

\* "if self.client:"
HasClient(client) == client /= "none"

\* WeaviateAdapter.close: the try block.  fails: client.close() raises.
CloseClient(g, fails) ==
  IF ~HasClient(g.client) THEN [g EXCEPT !.raised = "none", !.client_failed = FALSE]
  ELSE IF g.client = "none"
  THEN [g EXCEPT !.raised = "AttributeError", !.client_failed = FALSE]
  ELSE IF fails
  THEN [g EXCEPT !.raised = "Exception", !.client_failed = TRUE, !.client_closes = @ + 1]
  ELSE [g EXCEPT !.raised = "none", !.client_failed = FALSE, !.client_closes = @ + 1,
                 !.client = "closed"]

\* WeaviateAdapter(...): self.client = None
adapter_new ==
  /\ ~gateway.adapter
  /\ gateway' = [gateway EXCEPT !.adapter = TRUE, !.op = "new"]
  /\ UNCHANGED <<now, rag, call, unit, retry, gate, planner, extra>>

\* RAGClient(...): the adapter is made and connected, then the session is
\* made.  When no attempt of connect succeeds the exception leaves __init__,
\* and the adapter is left with no client, or with one that is not ready.
rag_init ==
  /\ ~gateway.adapter
  /\ \E fails \in 0..RETRY_MAX_ATTEMPTS, got \in BOOLEAN :
       gateway' = IF Retry(fails).ok
                  THEN [gateway EXCEPT !.adapter = TRUE, !.client = "open",
                                       !.rag_client = TRUE, !.session = "open", !.op = "init"]
                  ELSE [gateway EXCEPT !.adapter = TRUE,
                                       !.client = IF got THEN "unready" ELSE "none",
                                       !.op = "init", !.raised = "Exception"]
  /\ UNCHANGED <<now, rag, call, unit, retry, gate, planner, extra>>

\* WeaviateAdapter.close(): an exception of client.close() is logged and
\* raised again.
close ==
  /\ gateway.adapter
  /\ gateway.calls < MaxCloses
  /\ \E fails \in BOOLEAN :
       gateway' = [CloseClient(gateway, fails) EXCEPT !.op = "close", !.calls = @ + 1]
  /\ UNCHANGED <<now, rag, call, unit, retry, gate, planner, extra>>

\* RAGClient.cleanup(): the adapter and the session are closed, an exception
\* of either being logged, and the caches are saved.
cleanup ==
  /\ gateway.rag_client
  /\ gateway.calls < MaxCloses
  /\ \E fails \in BOOLEAN :
       gateway' = [CloseClient(gateway, fails) EXCEPT
                     !.raised = "none",
                     !.session = IF @ = "none" THEN @ ELSE "closed",
                     !.op = "cleanup", !.calls = @ + 1]
  /\ scraped_cache_file' \in Save(scraped_cache, scraped_cache_file)
  /\ plan_cache_file' \in Save(plan_cache, plan_cache_file)
  /\ UNCHANGED <<now, store, scraped_cache, call, unit, retry, gate, plan_cache, plan, extra>>

NextClose ==
  \/ adapter_new
  \/ rag_init
  \/ close
  \/ cleanup

SpecClose == Init /\ [][NextClose]_vars


(***************************************************************************)
(* RAGClient.embed on its own, as BaseAgent.retrieve_data calls it: one    *)
(* text, whose embedding request the API fails a number of times in        *)
(* succession before it answers.  src/rag_client.py wraps attempt_embed    *)
(* with RetryManager.retry and catches the failure of a request inside     *)
(* the attempt; rag_client.py retries the request in a loop of its own.    *)
(***************************************************************************)
EmbedModules == {"src/rag_client.py", "rag_client.py"}

\* The texts embedded: query_text of the two agents.
EmbedTexts ==
  {S_aspirin, S_Aspirin, S_aspirin \o S_space \o S_pain \o S_space \o S_adult}

\* embed(texts) is called.  cached: embed_cache holds the text's embedding;
\* broken: embed_cache holds it without its timestamp, so that its get raises
\* KeyError (src/rag_client.py only: the embed_cache of rag_client.py is a dict).
embed_call ==
  /\ embedding.state = "idle"
  /\ \E m \in EmbedModules, text \in EmbedTexts, fails \in 0..RETRY_MAX_ATTEMPTS,
        cached \in BOOLEAN, broken \in BOOLEAN :
       /\ broken => (cached /\ m = "src/rag_client.py")
       /\ embedding' = [EmbedIdle EXCEPT !.state = "running", !.module = m, !.text = text,
                                         !.fails = fails, !.cached = cached,
                                         !.broken = broken]
  /\ UNCHANGED <<now, rag, call, unit, retry, gate, planner, gateway, section>>

\* src/rag_client.py: one turn of the wrapper's loop, a call of attempt_embed.
\* embed_cache.get raises KeyError, which the wrapper retries and re-raises
\* at its last attempt; or the embedding is cached; or one request is made,
\* whose failure is caught and gives None.
embed_attempt ==
  /\ embedding.state = "running"
  /\ embedding.module = "src/rag_client.py"
  /\ embedding' =
       IF embedding.broken
       THEN IF embedding.attempt = RETRY_MAX_ATTEMPTS - 1
            THEN [embedding EXCEPT !.state = "raised", !.raised = "KeyError"]
            ELSE [embedding EXCEPT !.attempt = @ + 1,
                                   !.sleeps = Append(@, Delay(embedding.attempt))]
       ELSE IF embedding.cached
       THEN [embedding EXCEPT !.state = "returned", !.vector = Vec]
       ELSE [embedding EXCEPT !.state = "returned", !.requests = @ + 1,
                              !.vector = IF embedding.requests < embedding.fails
                                         THEN None ELSE Vec]
  /\ UNCHANGED <<now, rag, call, unit, retry, gate, planner, gateway, section>>

\* rag_client.py: the cached embedding, or one turn of "for attempt in
\* range(3)": a request, and after a failed one a sleep or, at the last
\* attempt, an Exception.
embed_request ==
  /\ embedding.state = "running"
  /\ embedding.module = "rag_client.py"
  /\ embedding' =
       IF embedding.cached
       THEN [embedding EXCEPT !.state = "returned", !.vector = Vec]
       ELSE IF embedding.requests < embedding.fails
       THEN IF embedding.attempt = 2
            THEN [embedding EXCEPT !.requests = @ + 1, !.state = "raised",
                                   !.raised = "Exception"]
            ELSE [embedding EXCEPT !.requests = @ + 1, !.attempt = @ + 1,
                                   !.sleeps = Append(@, Delay(embedding.attempt))]
       ELSE [embedding EXCEPT !.requests = @ + 1, !.state = "returned", !.vector = Vec]
  /\ UNCHANGED <<now, rag, call, unit, retry, gate, planner, gateway, section>>

\* The caller has the embeddings or the exception.
embed_return ==
  /\ embedding.state \in {"returned", "raised"}
  /\ embedding' = EmbedIdle
  /\ UNCHANGED <<now, rag, call, unit, retry, gate, planner, gateway, section>>

NextEmbed ==
  \/ embed_call
  \/ embed_attempt
  \/ embed_request
  \/ embed_return

SpecEmbed == Init /\ [][NextEmbed]_vars
(***************************************************************************)
(* Properties of the retrieval pipeline and of the cache.                  *)
(***************************************************************************)
\* The calls of a retrieve that goes through every tier, in order.
FullPathCalls ==
  <<"embed", "query_data", "get_from_cache", "scrape_data",
    collection_config.scrape.extract_function, "insert_data", "store_in_cache">>

\* The calls of a retrieve that ends at the cache.
CachePathCalls == <<"embed", "query_data", "get_from_cache">>

\* The result field of a store candidate of the collection in progress.
ResultField(properties) == Get(properties, collection_config.result_property, <<>>)

\* The result field of a stored object, by its collection's configuration.
StoredField(obj) ==
  LET key == CHOOSE k \in CollectionKeys : COLLECTION_CONFIG[k].name = obj.collection
  IN  Get(obj.properties, COLLECTION_CONFIG[key].result_property, <<>>)

\* A negative, no-data result of the extraction functions: it starts "No ".
NoData(data) == data /= None /\ Len(data) >= 3 /\ Lower(SubSeq(data, 1, 3)) = S_no

\* C1: a retrieve that found no store candidate and no cache entry, and has
\* returned, made exactly one live fetch, then one store insert, then one
\* cache put under the derived key, in that order, and returned the
\* extracted value.
C1_MissPath ==
  (pc = "done" /\ result = <<>> /\ cached_data = None) =>
    /\ calls = FullPathCalls
    /\ returned = extracted_data
    /\ cache_key = Format(collection_config.cache_key_template, query_params)
    /\ Get(scraped_cache.cache, cache_key, None) = extracted_data

\* C1: a first retrieve on an empty store and cache that fetched a dose,
\* inserted it, cached it and returned it.
C1_Witness ==
  /\ pc = "done"
  /\ result = <<>> /\ cached_data = None
  /\ calls = FullPathCalls
  /\ success
  /\ returned = T_dose
  /\ Get(scraped_cache.cache, cache_key, None) = T_dose

\* C2: every candidate of a store response that is not a miss passes the
\* validity gate (one failing candidate makes the whole response a miss),
\* and a value returned without a live fetch passes the gate, so that a
\* cache entry that fails it is never the value returned from the cache.
C2_GateHolds ==
  /\ \A i \in 1..Len(result) : PassesGate(ResultField(result[i]))
  /\ (pc = "done" /\ "scrape_data" \notin Range(calls)) => PassesGate(returned)
  /\ (pc = "done" /\ cached_data /= None /\ ~PassesGate(cached_data)) =>
       "scrape_data" \in Range(calls)

\* C2: the store holds a candidate for the query that fails the gate and the
\* response was a miss; the cache entry found fails the gate too.
C2_Witness ==
  /\ pc = "looked_up"
  /\ result = <<>>
  /\ \E obj \in Matching(collection_config.name, Filters(query_params, collection_config)) :
       ~PassesGate(ResultField(obj.properties))
  /\ cached_data /= None /\ ~PassesGate(cached_data)

\* C3: once the store has returned a candidate that passes the gate,
\* retrieve returns that candidate's result field, having made no cache
\* lookup, no live fetch, no store insert and no cache put.
C3_StoreHitReturns ==
  (result /= <<>> /\ pc /= "queried") =>
    /\ pc = "done"
    /\ returned = ResultField(result[1])
    /\ calls = <<"embed", "query_data">>

C5_OnlyValidStored == \A obj \in BagToSet(store) : PassesGate(StoredField(obj))

C7_InsertFailure ==
  ("insert_data" \in Range(calls) /\ ~success) =>
    /\ raised = "none"
    /\ pc \in {"inserted", "done"}
    /\ pc = "done" =>
         /\ calls = FullPathCalls
         /\ returned = extracted_data
         /\ Get(scraped_cache.cache, cache_key, None) = extracted_data

\* C7: the insert failed, nothing was stored, and the fetched dose was
\* cached and returned.
C7_Witness ==
  /\ pc = "done"
  /\ "insert_data" \in Range(calls) /\ ~success
  /\ store = EmptyBag
  /\ returned = T_dose
  /\ Get(scraped_cache.cache, cache_key, None) = T_dose

\* The fixed string of the extraction step for a fetch without content.
NoInformation ==
  IF collection_config.scrape.extract_function = "extract_dosage_info"
  THEN S_no_dosage_information \o Get(query_params, "drugName", <<>>) \o S_dot
  ELSE S_no_interactions

\* C8: when the live fetch gave no content, retrieve raises nothing, the
\* extraction step gives the fixed "no information" string of the query,
\* and that string is what retrieve returns.
C8_NoContent ==
  ("scrape_data" \in Range(calls) /\ ~scraped_content.content) =>
    /\ raised = "none"
    /\ pc \in {"extracted", "inserted", "done"} => extracted_data = NoInformation
    /\ pc = "done" => returned = NoInformation

\* C8: a dosage retrieve whose fetch gave no content returned the fixed string.
C8_Witness ==
  /\ pc = "done"
  /\ "scrape_data" \in Range(calls) /\ ~scraped_content.content
  /\ returned = S_no_dosage_information \o S_Aspirin \o S_dot

\* The query parameters with the drug name in another casing.
Recase(params, drug_name) ==
  [i \in 1..Len(params) |->
     IF params[i][1] = "drugName" THEN <<"drugName", drug_name>> ELSE params[i]]

\* C9: a retrieve derives the store filter and the cache key that it would
\* derive for the same parameters in any other casing, so that its cache
\* lookup finds what a retrieve with the other casing has written back.
C9_CaseBlind ==
  pc = "looked_up" =>
    \A drug_name \in DrugNames :
      LET other == Recase(query_params, drug_name)
      IN  /\ Filters(other, collection_config) = Filters(query_params, collection_config)
          /\ CacheKey(other, collection_config) = cache_key
          /\ GetValue(scraped_cache, CacheKey(other, collection_config), now) /= None
               => cached_data /= None

\* C10: the number of entries of the cache never exceeds max_size, whatever
\* gets, puts and loads have been made.
C10_Bounded == Len(lru.cache) <= lru.max_size

\* C10: a put on a full cache: the cache is full, holds the key just put,
\* and no longer holds a key that the file saved earlier has.
C10_Witness ==
  /\ last_op.op = "put"
  /\ Len(lru.cache) = lru.max_size
  /\ Has(lru.cache, last_op.key)
  /\ lru_file.state = "json"
  /\ Len(lru_file.data) = lru.max_size
  /\ \E i \in 1..Len(lru_file.data) : ~Has(lru.cache, lru_file.data[i][1])

(***************************************************************************)
(* Properties of the LRUCache, over the history of its accesses.           *)
(***************************************************************************)
\* get(key) on the instance as it is now raises nothing and returns a value.
Returned(key) == ~GetRaises(lru, key) /\ GetValue(lru, key, now) /= None

\* C11: with no time passed since the instance was created empty, once
\* max_size + 1 distinct keys have been put (with gets in between), the cache
\* holds exactly max_size entries, the one key missing is the least recently
\* accessed one, and get returns every other key.
C11_EvictsLeastRecent ==
  (now = 0 /\ Len(accessed) = lru.max_size + 1) =>
    /\ Len(lru.cache) = lru.max_size
    /\ ~Has(lru.cache, accessed[1][1])
    /\ \A i \in 2..Len(accessed) : Returned(accessed[i][1])

\* A step that is lru.get(key): every other method leaves another last_op,
\* and the clock stands still during a call.
GetStep(key) == last_op'.op = "get" /\ last_op'.key = key /\ now' = now

\* The age of a key: the time since its last put.
Age(key) == now - Item(accessed, key)

\* C12: a get on a resident key whose age is at least expiry_seconds returns
\* None and removes the value and the timestamp; a get at a smaller age
\* returns the value; and the passage of time alone removes nothing.
C12_LazyExpiry ==
  [][ /\ \A key \in UnitKeys :
           (GetStep(key) /\ Has(lru.cache, key)) =>
             /\ last_op'.raised = "none"
             /\ IF Age(key) >= lru.expiry_seconds
                THEN /\ last_op'.value = None
                     /\ ~Has(lru'.cache, key)
                     /\ ~Has(lru'.timestamps, key)
                ELSE last_op'.value = Item(lru.cache, key)
      /\ now' /= now => lru' = lru ]_vars

\* C13: when get(k) has returned a value and a new key is then put into the
\* full cache (max_size at least 2, k still unexpired), k is not the key
\* evicted, and a get(k) that follows returns k's value.
C13_GetMakesRecent ==
  [][ ( /\ last_op.op = "get" /\ last_op.raised = "none" /\ last_op.value /= None
        /\ lru.max_size >= 2 /\ Len(lru.cache) = lru.max_size
        /\ Age(last_op.key) < lru.expiry_seconds
        /\ last_op'.op = "put" /\ ~Has(lru.cache, last_op'.key) /\ now' = now )
      => /\ Has(lru'.cache, last_op.key)
         /\ ~GetRaises(lru', last_op.key)
         /\ GetValue(lru', last_op.key, now') = last_op.value ]_vars

\* Every entry of the cache is unexpired: get returns it.
AllUnexpired == \A i \in 1..Len(lru.cache) : Returned(lru.cache[i][1])

\* What get(key) gives on an instance c at time t: the exception or the value.
GetResult(c, key, t) == IF GetRaises(c, key) THEN <<"KeyError">> ELSE GetValue(c, key, t)

C15_LoadKeepsLast ==
  (last_op.op = "restart" /\ lru_file.state = "json" /\ Len(lru_file.data) > lru.max_size) =>
    LET n    == Len(lru_file.data)
        kept == SubSeq(lru_file.data, n - lru.max_size + 1, n)
    IN  /\ lru.cache = kept
        /\ \A i \in 1..Len(kept) :
             Age(kept[i][1]) < lru.expiry_seconds =>
               GetResult(lru, kept[i][1], now) = kept[i][2]

\* C15: a file of max_size + 1 entries has been loaded into a fresh cache,
\* which holds max_size entries and returns the last entry of the file.
C15_Witness ==
  /\ last_op.op = "restart"
  /\ lru_file.state = "json" /\ Len(lru_file.data) = lru.max_size + 1
  /\ Len(lru.cache) = lru.max_size
  /\ ~Has(lru.cache, lru_file.data[1][1])
  /\ GetResult(lru, lru_file.data[Len(lru_file.data)][1], now) = lru_file.data[Len(lru_file.data)][2]

(***************************************************************************)
(* Properties of the retry wrapper.                                        *)
(***************************************************************************)
\* C16: a wrapped call in which the function failed k times and then
\* succeeded (k below max_attempts) invoked it k + 1 times, slept k times
\* and returned its value; a call in which it failed every time invoked it
\* max_attempts times and raised.  For max_attempts = RETRY_MAX_ATTEMPTS
\* this is what Retry gives.
C16_RetryCounts ==
  LET k == Len(retry.errors)
  IN  /\ retry.state = "returned" =>
           /\ k < retry.max_attempts
           /\ retry.invocations = k + 1
           /\ Len(retry.sleeps) = k
           /\ retry.result = "value"
      /\ retry.state = "raised" =>
           /\ k = retry.max_attempts
           /\ retry.invocations = retry.max_attempts
      /\ (retry.state \in {"returned", "raised"} /\ retry.max_attempts = RETRY_MAX_ATTEMPTS) =>
           Retry(k) = [ok |-> retry.state = "returned", attempts |-> retry.invocations,
                       sleeps |-> Len(retry.sleeps)]

\* C16: a call that succeeded at its last attempt after max_attempts - 1
\* failures and as many sleeps.
C16_Witness ==
  /\ retry.state = "returned"
  /\ retry.max_attempts = RETRY_MAX_ATTEMPTS
  /\ Len(retry.errors) = RETRY_MAX_ATTEMPTS - 1
  /\ retry.invocations = RETRY_MAX_ATTEMPTS
  /\ Len(retry.sleeps) = RETRY_MAX_ATTEMPTS - 1

\* C17: when every attempt failed, what the wrapper raises is an
\* aggregated failure that names the wrapped function and wraps the last
\* underlying error, and is not the underlying error itself.
C17_AggregatedFailure ==
  retry.state = "raised" =>
    /\ retry.raised.type = "Exception"
    /\ retry.raised.names = retry.func
    /\ retry.raised.wraps = retry.last_exception.type
    /\ retry.raised /= retry.last_exception

(***************************************************************************)
(* Properties of the validity gate.                                        *)
(***************************************************************************)
\* What the gate is said to accept: a text of at least 20 characters whose
\* lower-cased form does not contain "no ".
Valid(data) == data /= None /\ Len(data) >= 20 /\ ~Contains(Lower(data), <<"n","o"," ">>)

\* C18: each gate accepts a payload exactly if it has at least 20
\* characters and its lower-cased text does not contain "no "; so a payload
\* of 19 characters is rejected, one of 20 characters without the fragment
\* is accepted, one with the fragment is rejected at any length, and the
\* store-side and cache-side verdicts on a payload are the same.
C18_GateVerdicts ==
  LET data == gate.data
      decided == {v \in {gate.store, gate.cache} : v /= "pending"}
  IN  /\ \A v \in decided : v = "accepted" <=> Valid(data)
      /\ (data /= None /\ Len(data) = 19) => \A v \in decided : v = "rejected"
      /\ (data /= None /\ Len(data) = 20 /\ ~Contains(Lower(data), S_no)) =>
           \A v \in decided : v = "accepted"
      /\ (data /= None /\ Contains(Lower(data), S_no)) => \A v \in decided : v = "rejected"
      /\ (gate.store /= "pending" /\ gate.cache /= "pending") => gate.store = gate.cache

\* C18: a payload of exactly 20 characters without the fragment, accepted
\* by both gates.
C18_Witness ==
  /\ gate.data /= None
  /\ Len(gate.data) = 20
  /\ ~Contains(Lower(gate.data), S_no)
  /\ gate.store = "accepted"
  /\ gate.cache = "accepted"

(***************************************************************************)
(* Properties of plan generation.                                          *)
(***************************************************************************)
\* The call in progress has the arguments (symptom, age, weight and the two
\* drugs, which make the plan key) of the call before it, which returned.
Repeated ==
  /\ plan.before.made
  /\ plan.before.outcome = "returned"
  /\ plan.plan_key /= <<>>
  /\ plan.before.key = plan.plan_key

\* C19: a call that follows a call with the same symptom, age, weight and
\* drugs which returned a plan returns the same text, from the plan cache,
\* with no call of generate_text.
C19_SecondFromCache ==
  (Repeated /\ plan.state /= "idle") =>
    /\ plan.state = "returned"
    /\ plan.output = plan.before.output
    /\ plan.generate_calls = 0

\* C20: a call whose PLAN_ATTEMPTS attempts all failed the validation returns
\* the fallback plan, and that text contains both drugs' display names and
\* both concise dosages.
C20_FallbackComplete ==
  /\ (plan.state = "generating" /\ plan.attempt = PLAN_ATTEMPTS) => ENABLED plan_fallback
  /\ (plan.state = "returned" /\ plan.fallback) =>
       /\ plan.generate_calls = PLAN_ATTEMPTS
       /\ plan.output = WithDisclaimer(FallbackPlanOf[plan.input])
       /\ Contains(plan.output, LocalsOf[plan.input].drug1_name_display)
       /\ Contains(plan.output, LocalsOf[plan.input].drug2_name_display)
       /\ Contains(plan.output, LocalsOf[plan.input].drug1_dosage_concise)
       /\ Contains(plan.output, LocalsOf[plan.input].drug2_dosage_concise)

\* C21: a call that follows a call with the same arguments which returned
\* the fallback plan makes no call of generate_text and returns the same
\* fallback plan, from the plan cache.
C21_FallbackFromCache ==
  (Repeated /\ plan.before.fallback /\ plan.state /= "idle") =>
    /\ plan.state = "returned"
    /\ ~plan.fallback
    /\ plan.generate_calls = 0
    /\ plan.output = plan.before.output

FilterValues(obj) == DelItem(obj.properties, COLLECTION_CONFIG[obj.collection].result_property)

\* C23: the store holds at most one object for each combination of
\* filter-field values in a collection: an insert with the values of an
\* object already stored overwrites that object.
C23_OneRecordPerFilter ==
  \A a \in BagToSet(store), b \in BagToSet(store) :
    (a.collection = b.collection /\ FilterValues(a) = FilterValues(b)) =>
      a = b /\ CopiesIn(a, store) = 1

\* C24 as claimed: no call of close or cleanup raises, in whatever state
\* the gateway is.
C24_NeverRaises == gateway.op \in {"close", "cleanup"} => gateway.raised = "none"

\* C24: close and cleanup can be repeated in every state.  With no client
\* (no connection was made) they leave the adapter alone and do not raise;
\* cleanup never raises; close raises only the exception of the client's
\* own close(), which it logs and raises again.
C24_CloseTolerant ==
  /\ gateway.client = "none" => gateway.client_closes = 0
  /\ (gateway.op \in {"close", "cleanup"} /\ gateway.client = "none") => gateway.raised = "none"
  /\ gateway.op = "cleanup" => gateway.raised = "none"
  /\ gateway.op = "close" => (gateway.raised /= "none" <=> gateway.client_failed)
  /\ (gateway.adapter /\ gateway.calls < MaxCloses) => ENABLED close
  /\ (gateway.rag_client /\ gateway.calls < MaxCloses) => ENABLED cleanup

\* close has been called twice or more on an adapter that never had a
\* client.
C24_Witness ==
  /\ gateway.op = "close"
  /\ gateway.client = "none"
  /\ gateway.calls >= 2
  /\ gateway.raised = "none"

\* A step that is lru.put(key, value) on a resident key.
RePutStep(key) ==
  /\ last_op'.op = "put"
  /\ last_op'.key = key
  /\ Has(lru.cache, key)
  /\ now' = now

\* C25: a put on a resident key leaves the number of entries unchanged,
\* makes get return the new value, restarts the key's expiry at the time of
\* the put, and makes the key the most recently used one: the last entry of
\* the cache, which a put of any other key does not evict and which get
\* still returns after that put.
C25_RePut ==
  [][ \A key \in UnitKeys :
        RePutStep(key) =>
          /\ Len(lru'.cache) = Len(lru.cache)
          /\ lru'.cache[Len(lru'.cache)] = <<key, last_op'.value>>
          /\ GetResult(lru', key, now') = last_op'.value
          /\ Has(lru'.timestamps, key) /\ Item(lru'.timestamps, key) = now'
          /\ lru.max_size >= 2 =>
               \A other \in UnitKeys \ {key}, value \in UnitValues :
                 GetResult(Put(lru', other, value, now'), key, now') = last_op'.value ]_vars

\* C26: a get changes the timestamp of no entry (it only deletes that of the
\* key it finds expired), and a get of a key whose last put is at least
\* expiry_seconds old returns None, whatever gets happened since that put.
C26_GetNeverRefreshes ==
  [][ \A key \in UnitKeys :
        GetStep(key) =>
          /\ \A k \in UnitKeys :
               /\ Has(lru'.timestamps, k) =>
                    /\ Has(lru.timestamps, k)
                    /\ Item(lru'.timestamps, k) = Item(lru.timestamps, k)
               /\ (k /= key /\ Has(lru.timestamps, k)) => Has(lru'.timestamps, k)
          /\ (Has(accessed, key) /\ Age(key) >= lru.expiry_seconds) =>
               /\ last_op'.raised = "none"
               /\ last_op'.value = None ]_vars

\* A step that is lru.get(key) returning a value.
GetHit(key) == GetStep(key) /\ last_op'.raised = "none" /\ last_op'.value /= None

\* C27 as stated: a successful get leaves the instance as a put of the same
\* key and value at that time does: the key moved to the end and its
\* timestamp set to the time of the get.
C27_GetRefreshes ==
  [][ \A key \in UnitKeys :
        GetHit(key) => lru' = Put(lru, key, last_op'.value, now) ]_vars

\* C27: a successful get moves the key to the end of the cache order, where a
\* re-put of the same value moves it, and leaves every timestamp as it was:
\* only a put sets the timestamp of a key.
C27_GetRecencyOnly ==
  [][ \A key \in UnitKeys :
        GetHit(key) =>
          /\ lru'.cache = Put(lru, key, last_op'.value, now).cache
          /\ lru'.timestamps = lru.timestamps ]_vars

\* A get has returned a key put earlier and moved it behind another key.
C27_Witness ==
  /\ last_op.op = "get" /\ last_op.raised = "none" /\ last_op.value /= None
  /\ Len(lru.cache) = 2 /\ lru.cache[2][1] = last_op.key
  /\ Has(lru.timestamps, last_op.key)
  /\ Item(lru.timestamps, last_op.key) < now
  /\ Item(lru.timestamps, lru.cache[1][1]) = now

\* C28: the sleep that follows failed attempt i (counted from 0) lasts
\* backoff_factor * 2^i; every failed attempt but the last of the call is
\* followed by one sleep, and the last failed attempt of a call that raises
\* is followed by none.
C28_Backoff ==
  /\ \A i \in 1..Len(retry.sleeps) :
       retry.sleeps[i] = RETRY_BACKOFF_FACTOR_MS * 2^(i - 1)
  /\ retry.state = "running" => Len(retry.sleeps) = Len(retry.errors)
  /\ retry.state = "raised" =>
       /\ Len(retry.errors) = retry.max_attempts
       /\ Len(retry.sleeps) = retry.max_attempts - 1

\* C28: every attempt of a call of MaxAttempts attempts has failed, after
\* sleeps of 200, 400 and 800 ms.
C28_Witness ==
  /\ retry.state = "raised"
  /\ retry.max_attempts = MaxAttempts
  /\ Len(retry.errors) = MaxAttempts
  /\ Len(retry.sleeps) = MaxAttempts - 1
  /\ retry.sleeps[Len(retry.sleeps)] = RETRY_BACKOFF_FACTOR_MS * 2^(MaxAttempts - 2)

\* C29 as stated: each of the failed attempts 0, 1 and 2 is followed by a
\* sleep of 0.5 * 2^i seconds: one sleep per failed attempt, of 500, 1000 and
\* 2000 ms.
C29_SleepsAfterEachFailure ==
  /\ Len(plan.sleeps) = plan.attempt
  /\ \A i \in 1..Len(plan.sleeps) : plan.sleeps[i] = PLAN_BACKOFF_MS * 2^(i - 1)

\* C29: the failed attempts 0 and 1 are each followed by a sleep of
\* 0.5 * 2^i seconds (500 and 1000 ms), and the failed attempt 2, the last
\* one, is followed by none: the loop ends and the fallback plan is built.
C29_SleepsBetweenAttempts ==
  /\ Len(plan.sleeps) = IF plan.attempt < PLAN_ATTEMPTS THEN plan.attempt
                        ELSE PLAN_ATTEMPTS - 1
  /\ \A i \in 1..Len(plan.sleeps) : plan.sleeps[i] = PLAN_BACKOFF_MS * 2^(i - 1)

\* C29: three attempts have failed, after sleeps of 500 and 1000 ms, and the
\* fallback plan has been returned.
C29_Witness ==
  /\ plan.state = "returned" /\ plan.fallback
  /\ plan.attempt = PLAN_ATTEMPTS
  /\ plan.generate_calls = PLAN_ATTEMPTS
  /\ plan.sleeps = <<PLAN_BACKOFF_MS, 2 * PLAN_BACKOFF_MS>>

\* Two non-empty paragraphs, the first from the greeting to its closing
\* words, the second from the caution to its closing words, of at most
\* PARAGRAPH_LIMIT characters each.
Accepted(paragraphs) ==
  /\ Len(paragraphs) = 2
  /\ \A i \in 1..2 : paragraphs[i] /= <<>> /\ Len(paragraphs[i]) <= PARAGRAPH_LIMIT
  /\ StartsWith(paragraphs[1], S_hello) /\ EndsWith(paragraphs[1], S_follow)
  /\ StartsWith(paragraphs[2], S_caution) /\ EndsWith(paragraphs[2], S_consult)

\* The plans made of the generated texts that are accepted, and the fallback
\* plans of the arguments.
AcceptedPlans ==
  {FinalPlan(ParagraphsOf[answer][1], ParagraphsOf[answer][2]) :
     answer \in {a \in DOMAIN ParagraphsOf : Accepted(ParagraphsOf[a])}}
FallbackPlans ==
  {FallbackPlanOf[n] : n \in {m \in 1..Len(PlanInputs) : Usable(PlanInputs[m])}}

\* The key-value pairs a cache holds.
Entries(c) == {c.cache[i] : i \in 1..Len(c.cache)}

\* A step that writes the plan cache: its pairs or its timestamps change (a
\* get that finds a plan only moves it to the end).
PlanCacheWritten ==
  \/ Entries(plan_cache') /= Entries(plan_cache)
  \/ plan_cache'.timestamps /= plan_cache.timestamps

C31_SectionCut ==
  section.state = "cut" =>
    /\ Len(section.text) <= 400
    /\ IF Len(section.built) > 400
       THEN /\ section.text = SubSeq(section.built, 1, 397) \o <<".", ".", ".">>
            /\ Len(section.text) = 400
       ELSE section.text = section.built

\* C31: a paragraph built with 401 characters has been cut to 400.
C31_Witness ==
  /\ section.state = "cut"
  /\ Len(section.built) = 401
  /\ Len(section.text) = 400
  /\ section.text /= SubSeq(section.built, 1, 400)

(***************************************************************************)
(* Properties of RAGClient.embed.                                          *)
(***************************************************************************)
\* C32: an embedding request that fails is made again, after a sleep, up to
\* RETRY_MAX_ATTEMPTS requests in all, and embed returns the vector when one
\* of these requests succeeds: a call on a text not cached, whose request
\* the API fails fewer than RETRY_MAX_ATTEMPTS times in succession, ends
\* with the vector after one request more than the failures and as many
\* sleeps as failures.
C32_EmbedRetried ==
  (embedding.state \in {"returned", "raised"} /\ ~embedding.cached) =>
    IF embedding.fails < RETRY_MAX_ATTEMPTS
    THEN /\ embedding.state = "returned"
         /\ embedding.vector = Vec
         /\ embedding.requests = embedding.fails + 1
         /\ Len(embedding.sleeps) = embedding.fails
    ELSE embedding.requests = RETRY_MAX_ATTEMPTS

(***************************************************************************)
(* Further properties of BaseAgent.retrieve_data.                          *)
(***************************************************************************)
\* The call in progress was made without the primary filter field, and its
\* store query gave nothing.
MissWithoutField ==
  /\ pc /= "idle"
  /\ ~Has(query_params, collection_config.filter_properties[1])
  /\ \E i \in 1..Len(calls) : calls[i] = "query_data"
  /\ result = <<>>

\* C33: a call without the primary filter field whose store query gave
\* nothing does not raise before the live fetch: if it has raised, the
\* scraper was called before.
C33_EmptyIdentifier ==
  (MissWithoutField /\ pc = "raised") => \E i \in 1..Len(calls) : calls[i] = "scrape_data"

\* C34: when the write of the cache file fails in store_in_cache (the file
\* is not the JSON of the cache afterwards), the call still returns the
\* extracted value and raises nothing, and the cache in memory is what the
\* put made of it.
C34_SaveFailureIgnored ==
  [][ ( /\ pc = "inserted" /\ pc' /= "inserted"
        /\ scraped_cache_file' /= Json(scraped_cache'.cache) ) =>
      ( /\ pc' = "done"
        /\ raised' = "none"
        /\ returned' = extracted_data
        /\ scraped_cache' = Put(scraped_cache, cache_key, extracted_data, now)
        /\ Has(scraped_cache'.cache, cache_key)
        /\ Item(scraped_cache'.cache, cache_key) = extracted_data ) ]_vars

\* C34: a call has returned its value, which the cache holds, after a save
\* that left the file cut short.
C34_Witness ==
  /\ pc = "done"
  /\ Len(calls) >= 1 /\ calls[Len(calls)] = "store_in_cache"
  /\ scraped_cache_file = Corrupt
  /\ returned = extracted_data
  /\ Has(scraped_cache.cache, cache_key)
  /\ Item(scraped_cache.cache, cache_key) = returned

(***************************************************************************)
(* Further properties of the cache.                                        *)
(***************************************************************************)
\* C35: after any sequence of gets and puts the keys of `cache` are the keys
\* of `timestamps`: no resident key is without a timestamp, so that no get
\* raises, and no timestamp is left for a key that is not resident.
C35_KeysAgree ==
  /\ {lru.cache[i][1] : i \in 1..Len(lru.cache)}
       = {lru.timestamps[i][1] : i \in 1..Len(lru.timestamps)}
  /\ \A key \in UnitKeys : ~GetRaises(lru, key)
  /\ last_op.raised = "none"

\* C36: get returns no entry more than expiry_seconds after the put that
\* wrote its value, a restart included: when an instance holds a key whose
\* last put is more than expiry_seconds old, and the file holds the same
\* value for the key, get on the new instance that has loaded the file does
\* not return it.
C36_NoLongerLife ==
  [][ \A key \in UnitKeys :
        ( /\ last_op'.op = "restart"
          /\ Has(lru.cache, key) /\ Has(lru.timestamps, key)
          /\ now - Item(lru.timestamps, key) > lru.expiry_seconds
          /\ lru_file.state = "json" /\ Has(lru_file.data, key)
          /\ Item(lru_file.data, key) = Item(lru.cache, key) )
        => GetResult(lru', key, now') /= Item(lru.cache, key) ]_vars

\* The objects of the store that are the record of the call in progress: of
\* the agent's collection, with the value v as result field, every filter
\* field of the query lower-cased, and no other property.
RecordsOf(v) ==
  { obj \in BagToSet(store) :
      /\ obj.collection = collection_config.name
      /\ Get(obj.properties, collection_config.result_property, None) = v
      /\ \A i \in 1..Len(query_params) :
           query_params[i][1] \in Range(collection_config.filter_properties) =>
             Get(obj.properties, query_params[i][1], None) = Lower(query_params[i][2])
      /\ \A i \in 1..Len(obj.properties) :
           \/ obj.properties[i][1] = collection_config.result_property
           \/ /\ obj.properties[i][1] \in Range(collection_config.filter_properties)
              /\ Has(query_params, obj.properties[i][1]) }

\* C37: a retrieve that made a live fetch and has returned gave back the
\* extracted value, whether it passes the gate or not; the cache holds that
\* value under the derived key; and the record inserted, when the insert
\* succeeded, has that value as result field and the lower-cased filter
\* fields of the query as its other properties.
C37_OneValue ==
  (pc = "done" /\ "scrape_data" \in Range(calls)) =>
    /\ returned = extracted_data
    /\ cache_key = Format(collection_config.cache_key_template, query_params)
    /\ Has(scraped_cache.cache, cache_key)
    /\ Item(scraped_cache.cache, cache_key) = returned
    /\ success => RecordsOf(returned) /= {}

\* C37: a retrieve for "Aspirin" has fetched a value that fails the gate,
\* inserted it under "aspirin", cached it and returned it.
C37_Witness ==
  /\ pc = "done" /\ "scrape_data" \in Range(calls)
  /\ success
  /\ ~PassesGate(returned)
  /\ Get(query_params, "drugName", None) = S_Aspirin
  /\ \E obj \in RecordsOf(returned) : Get(obj.properties, "drugName", None) = S_aspirin
  /\ Item(scraped_cache.cache, cache_key) = returned

\* The store query of the call in progress failed at every attempt: it gave
\* nothing although the store holds objects for the query, all of which pass
\* the gate (before the call's own insert).
QueryFailed ==
  /\ pc \notin {"idle", "embed", "query"}
  /\ "query_data" \in Range(calls)
  /\ "insert_data" \notin Range(calls)
  /\ result = <<>>
  /\ Matching(collection_config.name, Filters(query_params, collection_config)) /= {}
  /\ \A obj \in Matching(collection_config.name, Filters(query_params, collection_config)) :
       PassesGate(ResultField(obj.properties))

\* C38: a retrieve whose store query failed at every attempt does not raise
\* and goes on as after a miss: to the cache lookup, and from there to the
\* return of the cached value or to the live fetch.
C38_FailureIsMiss ==
  QueryFailed =>
    /\ pc /= "raised"
    /\ raised = "none"
    /\ pc /= "queried" => "get_from_cache" \in Range(calls)
    /\ pc = "queried" => ENABLED get_from_cache

\* The cache holds, under the key of the call in progress, a gate-valid value
\* that has not expired and that this call did not put: the value an earlier
\* retrieve with the same query parameters derived from its live fetch (the
\* cache starts empty and only store_in_cache puts).
ServedFromEarlier ==
  /\ pc /= "idle"
  /\ "store_in_cache" \notin Range(calls)
  /\ ~FormatRaises(collection_config.cache_key_template, query_params)
  /\ PassesGate(GetValue(scraped_cache, CacheKey(query_params, collection_config), now))

\* C39: a retrieve made while the cache still holds the gate-valid value that
\* an earlier retrieve with the same query parameters fetched makes no live
\* fetch, raises nothing, and returns a gate-valid value, whatever the store
\* holds for the same filter values.
C39_LaterRetrieveServed ==
  ServedFromEarlier =>
    /\ "scrape_data" \notin Range(calls)
    /\ pc /= "raised"
    /\ pc = "done" => PassesGate(returned)

====
